---- MODULE Spec2Model ----
(***************************************************************************)
(* gitdu: the JSONL cache (cache.py), the version-control adapter          *)
(* (git_operations.py), the statistics engine (stats_aggregator.py) and    *)
(* the orchestrator's use of them (gitdu.py main).                         *)
(*                                                                         *)
(* A repository is a linear history of commits.  A path is the tuple of    *)
(* its segments (Path(p).parts).  The cache file is the sequence of the    *)
(* chunks that json.dump and f.write put into it.                          *)
(***************************************************************************)
EXTENDS Integers, Sequences, FiniteSets, TLC

\* ------------------------------------------------------------------ bounds
MaxCommits == 2
MaxRuns == 2
MaxDate == 1
MaxWrites == 3
MaxVersions == 3
MaxRollDate == 2
MaxHistory == 3
MaxLogDate == 2
MaxDepth == 2
MaxScopeCommits == 2

\* ------------------------------------------------------- paths and markers
REPO_HEAD_MARKER == <<"__repo_head__">>
REFRESH_PROGRESS_MARKER == <<"__refresh_progress__">>
DEFAULT_GLOB_PATTERN == <<"*", "*", "/", "*">>

Files == { <<"a", "b", "z">>, <<"a", "x">> }
Globs == { DEFAULT_GLOB_PATTERN, <<"a", "/", "*">> }
Emails == { "u1", "u2" }
Dates == 1..MaxDate

NoDate == 0
NoAuthor == "None"
NoHash == [id |-> 0, digit |-> FALSE]
None == [none |-> TRUE]

\* byte order of the segment names used in Files (str comparison in sorted())
SegRank(s) == CASE s = "a" -> 1 [] s = "b" -> 2 [] s = "x" -> 3 [] s = "z" -> 4 [] OTHER -> 0

RECURSIVE PathLess(_, _)
PathLess(p, q) ==
    IF p = <<>> THEN q # <<>>
    ELSE IF q = <<>> THEN FALSE
    ELSE IF SegRank(Head(p)) # SegRank(Head(q)) THEN SegRank(Head(p)) < SegRank(Head(q))
    ELSE PathLess(Tail(p), Tail(q))

\* sorted(S): the ascending sequence of the paths of S
RECURSIVE SortPaths(_)
SortPaths(S) ==
    IF S = {} THEN <<>>
    ELSE LET m == CHOOSE p \in S : \A q \in S \ {p} : PathLess(p, q)
         IN <<m>> \o SortPaths(S \ {m})

\* the order of a sort without reverse=True: shallower directories first
DeeperFirst_shallower(p, q) == Len(p) < Len(q) \/ (Len(p) = Len(q) /\ PathLess(p, q))

\* sorted(dirs, key=lambda x: (len(Path(x).parts), x), reverse=True)
DeeperFirst(p, q) == Len(p) > Len(q) \/ (Len(p) = Len(q) /\ PathLess(q, p))

RECURSIVE SortDirs(_)
SortDirs(S) ==
    IF S = {} THEN <<>>
    ELSE LET m == CHOOSE p \in S : \A q \in S \ {p} : DeeperFirst(p, q)
         IN <<m>> \o SortDirs(S \ {m})

Range(s) == { s[i] : i \in 1..Len(s) }

\* ----------------------------------------------------------- glob matcher
\* A string (a path as git prints it, or a pattern) is a sequence of tokens:
\* "/" is the separator, "*" the wildcard, and any other token stands for a
\* run of ordinary characters.
Str(path) ==
    IF path = <<>> THEN <<>>
    ELSE [i \in 1..(2 * Len(path) - 1) |->
             IF i % 2 = 1 THEN path[(i + 1) \div 2] ELSE "/"]

\* the segments between separators (empty segments are dropped)
RECURSIVE PartsFrom(_, _, _, _)
PartsFrom(s, i, cur, acc) ==
    IF i > Len(s) THEN (IF cur = <<>> THEN acc ELSE Append(acc, cur))
    ELSE IF s[i] = "/"
         THEN PartsFrom(s, i + 1, <<>>, IF cur = <<>> THEN acc ELSE Append(acc, cur))
         ELSE PartsFrom(s, i + 1, Append(cur, s[i]), acc)

Parts(s) == PartsFrom(s, 1, <<>>, <<>>)

\* fnmatch.fnmatchcase of one segment: "*" matches any run of characters
RECURSIVE fnmatchcase(_, _)
fnmatchcase(name, pat) ==
    IF pat = <<>> THEN name = <<>>
    ELSE IF Head(pat) = "*"
         THEN fnmatchcase(name, Tail(pat))
              \/ (name # <<>> /\ fnmatchcase(Tail(name), pat))
         ELSE name # <<>> /\ Head(name) = Head(pat) /\ fnmatchcase(Tail(name), Tail(pat))

IsAbsolute(pattern) == pattern # <<>> /\ Head(pattern) = "/"

\* PurePath.match raises ValueError("empty pattern")
EmptyPattern(pattern) == ~ IsAbsolute(pattern) /\ Parts(pattern) = <<>>

\* PurePath.match of a relative path: a rooted pattern does not match; a
\* relative one is matched segment by segment from the right
PathMatch(filepath, pattern) ==
    LET parts == Parts(filepath)
        pat_parts == Parts(pattern)
    IN /\ ~ IsAbsolute(pattern)
       /\ Len(pat_parts) <= Len(parts)
       /\ \A i \in 1..Len(pat_parts) :
              fnmatchcase(parts[Len(parts) - Len(pat_parts) + i], pat_parts[i])

StarStarSlash == <<"*", "*", "/">>

\* "**/" in pattern
HasStarStarSlash(s) ==
    \E i \in 1..(Len(s) - 2) : SubSeq(s, i, i + 2) = StarStarSlash

\* pattern.replace("**/", "")
RECURSIVE RemoveStarStarSlash(_)
RemoveStarStarSlash(s) ==
    IF Len(s) < 3 THEN s
    ELSE IF SubSeq(s, 1, 3) = StarStarSlash THEN RemoveStarStarSlash(SubSeq(s, 4, Len(s)))
    ELSE <<Head(s)>> \o RemoveStarStarSlash(Tail(s))

\* pattern.startswith("**")
StartsWithStarStar(s) == Len(s) >= 2 /\ s[1] = "*" /\ s[2] = "*"

\* a matcher without the fallback for "**/"
matches_glob_pattern_no_root(filepath, pattern) ==
    IF pattern = DEFAULT_GLOB_PATTERN THEN "True"
    ELSE IF EmptyPattern(pattern) THEN "ValueError"
    ELSE IF PathMatch(filepath, pattern) THEN "True"
    ELSE IF StartsWithStarStar(pattern)
         THEN LET suffix_pattern == SubSeq(pattern, 3, Len(pattern))
              IN IF EmptyPattern(suffix_pattern) THEN "ValueError"
                 ELSE IF PathMatch(filepath, suffix_pattern)
                         \/ PathMatch(filepath, <<"*">> \o suffix_pattern) THEN "True"
                 ELSE "False"
    ELSE "False"

\* "True", "False", or "ValueError" when a Path.match raises
matches_glob_pattern(filepath, pattern) ==
    IF pattern = DEFAULT_GLOB_PATTERN THEN "True"
    ELSE IF EmptyPattern(pattern) THEN "ValueError"
    ELSE IF PathMatch(filepath, pattern) THEN "True"
    ELSE IF HasStarStarSlash(pattern) /\ EmptyPattern(RemoveStarStarSlash(pattern))
         THEN "ValueError"
    ELSE IF HasStarStarSlash(pattern) /\ PathMatch(filepath, RemoveStarStarSlash(pattern))
         THEN "True"
    ELSE IF StartsWithStarStar(pattern)
         THEN LET suffix_pattern == SubSeq(pattern, 3, Len(pattern))
              IN IF EmptyPattern(suffix_pattern) THEN "ValueError"
                 ELSE IF PathMatch(filepath, suffix_pattern)
                         \/ PathMatch(filepath, <<"*">> \o suffix_pattern) THEN "True"
                 ELSE "False"
    ELSE "False"

\* ------------------------------------------------------------- repository
\* One commit: its hash (id, and whether its first character is a decimal
\* digit), author, short date, the file it touches and that file's numstat.
Commit(n, dg, e, d, f) ==
    [hash |-> [id |-> n, digit |-> dg], email |-> e, date |-> d, file |-> f,
     ins |-> n, del |-> 1]

NoCommit == [hash |-> NoHash]

get_current_head(log) == IF log = <<>> THEN NoHash ELSE log[Len(log)].hash

\* repo.git.ls_files(): the tracked files, in index (byte) order
ls_files(log) == SortPaths({ log[i].file : i \in 1..Len(log) })

get_tracked_files(log, glob_pattern) ==
    IF glob_pattern = DEFAULT_GLOB_PATTERN THEN ls_files(log)
    ELSE SelectSeq(ls_files(log), LAMBDA f : matches_glob_pattern(Str(f), glob_pattern) = "True")

\* iter_commits(paths=path, max_count=1): the newest commit touching path
get_latest_commit_hash(log, path) ==
    LET I == { i \in 1..Len(log) : log[i].file = path }
    IN IF I = {} THEN NoHash
       ELSE log[CHOOSE i \in I : \A j \in I : j <= i].hash

\* git diff --name-only old new
get_changed_files(log, cached_head, current_head) ==
    SortPaths({ log[i].file : i \in { j \in 1..Len(log) : j > cached_head.id /\ j <= current_head.id } })

\* ------------------------------------------------------- statistics engine
EmptyStats(path) ==
    [path |-> path, commits |-> 0, insertions |-> 0, deletions |-> 0,
     authors |-> {}, first_commit |-> NoDate, last_commit |-> NoDate,
     latest_author |-> NoAuthor, is_dir |-> FALSE, last_commit_hash |-> NoHash,
     last_commit_message |-> NoHash]

\* a header line hash|email|date|subject is taken for a header when
\* '|' in line and not line[0].isdigit() and '-' not in line[:10]
IsHeaderLine(c) == ~ c.hash.digit

\* one numstat line of commit c, attributed to the header cur
NumstatLine(st, cur, c) ==
    LET newer == st.last_commit = NoDate \/ cur.date > st.last_commit
    IN [st EXCEPT
          !.commits = @ + 1,
          !.insertions = @ + c.ins,
          !.deletions = @ + c.del,
          !.authors = @ \cup {cur.email},
          !.first_commit = IF @ = NoDate \/ cur.date < @ THEN cur.date ELSE @,
          !.last_commit = IF newer THEN cur.date ELSE @,
          !.last_commit_hash = IF newer THEN cur.hash ELSE @,
          !.latest_author = IF newer THEN cur.email ELSE @,
          !.last_commit_message = IF newer THEN cur.hash ELSE @]

\* the parse loop over the oldest-first stream, from line i on
RECURSIVE ParseLog(_, _, _, _, _)
ParseLog(log, i, cur, all_stats, glob_pattern) ==
    IF i > Len(log) THEN all_stats
    ELSE LET c == log[i]
             cur2 == IF IsHeaderLine(c) THEN c ELSE cur
             hit == /\ cur2 # NoCommit
                    /\ c.file \in DOMAIN all_stats
                    /\ (glob_pattern = DEFAULT_GLOB_PATTERN
                          \/ matches_glob_pattern(Str(c.file), glob_pattern) = "True")
             st2 == IF hit
                    THEN [all_stats EXCEPT ![c.file] = NumstatLine(@, cur2, c)]
                    ELSE all_stats
         IN ParseLog(log, i + 1, cur2, st2, glob_pattern)

aggregate_all_file_stats_fast(log, files, glob_pattern) ==
    ParseLog(log, 1, NoCommit, [f \in Range(files) |-> EmptyStats(f)], glob_pattern)

\* one commit of repo.iter_commits() touching a requested file; commit_date is
\* the committer's date (c.cdate), where the log stream carries the author's
StandardCommit(st, c) ==
    LET first == st.last_commit_hash = NoHash
    IN [st EXCEPT
          !.commits = @ + 1,
          !.authors = @ \cup {c.email},
          !.first_commit = IF @ = NoDate \/ c.cdate < @ THEN c.cdate ELSE @,
          !.last_commit = IF @ = NoDate \/ c.cdate > @ THEN c.cdate ELSE @,
          !.insertions = @ + c.ins,
          !.deletions = @ + c.del,
          !.last_commit_hash = IF first THEN c.hash ELSE @,
          !.latest_author = IF first THEN c.email ELSE @,
          !.last_commit_message = IF first THEN c.hash ELSE @]

\* the loop over repo.iter_commits(): newest commit first, from commit i down
RECURSIVE IterCommits(_, _, _, _)
IterCommits(log, i, all_stats, glob_pattern) ==
    IF i < 1 THEN all_stats
    ELSE LET c == log[i]
             relevant == /\ c.file \in DOMAIN all_stats
                         /\ (glob_pattern = DEFAULT_GLOB_PATTERN
                               \/ matches_glob_pattern(Str(c.file), glob_pattern) = "True")
             st2 == IF relevant
                    THEN [all_stats EXCEPT ![c.file] = StandardCommit(@, c)]
                    ELSE all_stats
         IN IterCommits(log, i - 1, st2, glob_pattern)

aggregate_all_file_stats_standard(log, files, glob_pattern) ==
    IterCommits(log, Len(log), [f \in Range(files) |-> EmptyStats(f)], glob_pattern)

\* every proper, non-empty prefix of every path
get_all_dirs(paths) ==
    UNION { { SubSeq(p, 1, i) : i \in 1..(Len(p) - 1) } : p \in Range(paths) }

\* ------------------------------------------------- the in-memory map _data
\* A dict keeps insertion order: _data is the sequence of its values.
IndexOf(d, path) ==
    IF \E i \in 1..Len(d) : d[i].path = path
    THEN CHOOSE i \in 1..Len(d) : d[i].path = path
    ELSE 0

get(d, path) == IF IndexOf(d, path) = 0 THEN None ELSE d[IndexOf(d, path)]

\* self._data[entry['path']] = entry
dict_set(d, entry) ==
    IF IndexOf(d, entry.path) = 0 THEN Append(d, entry)
    ELSE [d EXCEPT ![IndexOf(d, entry.path)] = entry]

remove_entry(d, path) == SelectSeq(d, LAMBDA e : e.path # path)

Paths(d) == { d[i].path : i \in 1..Len(d) }

\* the map without its order: path -> record
AsMap(d) == [p \in Paths(d) |-> get(d, p)]

cached_hash(d, path) ==
    IF get(d, path) = None THEN NoHash ELSE get(d, path).last_commit_hash

\* ------------------------------------------------------ directory roll-up
\* the characters of a path segment: a.b and axb are names of three
\* characters, every other segment stands for one ordinary character
SegChars(s) ==
    CASE s = "a.b" -> <<"a", ".", "b">>
      [] s = "axb" -> <<"a", "x", "b">>
      [] OTHER -> <<s>>

\* the path as the string of its characters, segments joined by os.sep
RECURSIVE PathChars(_)
PathChars(path) ==
    IF path = <<>> THEN <<>>
    ELSE IF Len(path) = 1 THEN SegChars(path[1])
    ELSE SegChars(Head(path)) \o <<"/">> \o PathChars(Tail(path))

\* re.match('^' + prefix + '.*', s): the prefix is read as a regular
\* expression, in which '.' stands for any character
ReMatchPrefix(prefix, s) ==
    Len(s) >= Len(prefix) /\ \A i \in 1..Len(prefix) : prefix[i] = "." \/ prefix[i] = s[i]

\* q.path.matches('^' + prefix + '.*') with prefix = dir_path + os.sep
UnderDir(dir_path, path) ==
    ReMatchPrefix(IF dir_path = <<>> THEN <<>> ELSE PathChars(dir_path) \o <<"/">>,
                  PathChars(path))

\* str(hash(tuple(sorted(hashes)))): a function of the multiset of the hashes
\* and of the string-hash seed of the running process
SyntheticHash(hashes, seed) ==
    [synthetic |-> [h \in Range(hashes) |->
                       Cardinality({ i \in 1..Len(hashes) : hashes[i] = h })],
     seed |-> seed]

EmptyAgg(dir_path) ==
    [path |-> dir_path, commits |-> 0, insertions |-> 0, deletions |-> 0,
     authors |-> {}, first_commit |-> NoDate, last_commit |-> NoDate,
     latest_author |-> NoAuthor, is_dir |-> TRUE, last_commit_hash |-> NoHash]

\* a loop body that leaves the insertions out of the sum
DirDoc_no_insertions(acc, doc) ==
    [agg |-> [acc.agg EXCEPT !.commits = @ + doc.commits,
                             !.deletions = @ + doc.deletions,
                             !.authors = @ \cup doc.authors],
     hashes |-> acc.hashes, latest_commit_date |-> acc.latest_commit_date]

\* the body of the loop over docs; acc = [agg, hashes, latest_commit_date]
DirDoc(acc, doc) ==
    LET agg == acc.agg
        older == doc.first_commit # NoDate
                 /\ (agg.first_commit = NoDate \/ doc.first_commit < agg.first_commit)
        newer == doc.last_commit # NoDate
                 /\ (agg.last_commit = NoDate \/ doc.last_commit > agg.last_commit)
        track == newer /\ (acc.latest_commit_date = NoDate
                             \/ doc.last_commit > acc.latest_commit_date)
    IN [agg |-> [agg EXCEPT
                   !.commits = @ + doc.commits,
                   !.insertions = @ + doc.insertions,
                   !.deletions = @ + doc.deletions,
                   !.authors = @ \cup doc.authors,
                   !.first_commit = IF older THEN doc.first_commit ELSE @,
                   !.last_commit = IF newer THEN doc.last_commit ELSE @,
                   !.latest_author = IF track THEN doc.latest_author ELSE @],
        hashes |-> IF doc.last_commit_hash # NoHash
                   THEN Append(acc.hashes, doc.last_commit_hash) ELSE acc.hashes,
        latest_commit_date |-> IF track THEN doc.last_commit ELSE acc.latest_commit_date]

RECURSIVE DirLoop(_, _, _, _)
DirLoop(d, i, dir_path, acc) ==
    IF i > Len(d) THEN acc
    ELSE IF UnderDir(dir_path, d[i].path) /\ d[i].path # dir_path
         THEN DirLoop(d, i + 1, dir_path, DirDoc(acc, d[i]))
         ELSE DirLoop(d, i + 1, dir_path, acc)

\* a roll-up that starts the loop at the second record of the map
aggregate_dir_stats_from_second(d, dir_path, seed) ==
    LET acc == DirLoop(d, 2, dir_path,
                       [agg |-> EmptyAgg(dir_path), hashes |-> <<>>,
                        latest_commit_date |-> NoDate])
    IN [acc.agg EXCEPT !.last_commit_hash =
           IF acc.hashes = <<>> THEN NoHash
           ELSE IF Len(acc.hashes) = 1 THEN acc.hashes[1]
           ELSE SyntheticHash(acc.hashes, seed)]

aggregate_dir_stats(d, dir_path, seed) ==
    LET acc == DirLoop(d, 1, dir_path,
                       [agg |-> EmptyAgg(dir_path), hashes |-> <<>>,
                        latest_commit_date |-> NoDate])
    IN [acc.agg EXCEPT !.last_commit_hash =
           IF acc.hashes = <<>> THEN NoHash
           ELSE IF Len(acc.hashes) = 1 THEN acc.hashes[1]
           ELSE SyntheticHash(acc.hashes, seed)]

\* --------------------------------------------------------- the cache file
\* json.dump writes the record in chunks and f.write adds the newline; the
\* file is the sequence of the chunks written so far.
LB == [chunk |-> "{"]
RB == [chunk |-> "}"]
NL == [chunk |-> "\n"]

\* json.dump(entry, f, separators=(',', ':'))
dump(entry) == <<LB, entry, RB>>

NoFile == [exists |-> FALSE, text |-> <<>>]

\* for line in f: the text split at the newlines (the last line may have none)
RECURSIVE SplitLines(_, _)
SplitLines(text, line) ==
    IF text = <<>> THEN (IF line = <<>> THEN <<>> ELSE <<line>>)
    ELSE IF Head(text) = NL THEN <<line>> \o SplitLines(Tail(text), <<>>)
    ELSE SplitLines(Tail(text), Append(line, Head(text)))

\* a parser that takes a record cut before its closing brace for an object
IsJsonObject_unclosed(line) ==
    Len(line) >= 2 /\ line[1] = LB /\ line[2] \notin {LB, RB}

\* json.loads(line) returns an object exactly for one whole dumped record
IsJsonObject(line) ==
    Len(line) = 3 /\ line[1] = LB /\ line[3] = RB /\ line[2] \notin {LB, RB}

\* lines that json.loads accepts although no record was dumped to them: a
\* number (as true, false and null: 'path' in entry raises TypeError) and a
\* list without the element "path" ('path' in entry is False)
NUM == [chunk |-> "5"]
LST == [chunk |-> "[]"]

IsJsonScalar(line) == line = <<NUM>>

IsJsonList(line) == line = <<LST>>

\* the loop of _load_cache; acc = [data, warnings, failed]: a TypeError leaves
\* the loop for the outer handler, which prints one warning and returns
RECURSIVE LoadLines(_, _, _)
LoadLines(lines, i, acc) ==
    IF i > Len(lines) THEN acc
    ELSE IF lines[i] = <<>> THEN LoadLines(lines, i + 1, acc)
    ELSE IF IsJsonObject(lines[i])
         THEN LoadLines(lines, i + 1, [acc EXCEPT !.data = dict_set(@, lines[i][2])])
    ELSE IF IsJsonScalar(lines[i]) THEN [acc EXCEPT !.failed = TRUE]
    ELSE IF IsJsonList(lines[i]) THEN LoadLines(lines, i + 1, acc)
    ELSE LoadLines(lines, i + 1, [acc EXCEPT !.warnings = Append(@, i)])

load_cache(file) ==
    IF ~ file.exists THEN [data |-> <<>>, warnings |-> <<>>, failed |-> FALSE]
    ELSE LoadLines(SplitLines(file.text, <<>>), 1,
                   [data |-> <<>>, warnings |-> <<>>, failed |-> FALSE])

\* with open(self.cache_file, 'a'): json.dump(entry, f); f.write('\n')
save_entry(file, entry) ==
    [exists |-> TRUE, text |-> file.text \o dump(entry) \o <<NL>>]

\* the same write cut short after k chunks of the record (k = 3: the whole
\* record, but not its newline)
torn_entry(file, entry, k) ==
    [exists |-> TRUE, text |-> file.text \o SubSeq(dump(entry), 1, k)]

RECURSIVE DumpAll(_)
DumpAll(d) == IF d = <<>> THEN <<>> ELSE dump(Head(d)) \o <<NL>> \o DumpAll(Tail(d))

\* a compaction that leaves the file as it is
compact_cache_keep(file, d) == file

compact_cache(file, d) ==
    IF ~ file.exists THEN file ELSE [exists |-> TRUE, text |-> DumpAll(d)]

\* ------------------------------------------------------- cache operations
HeadRecord(h) == [path |-> REPO_HEAD_MARKER, last_commit_hash |-> h, is_dir |-> FALSE]

FilesMarker(files, files_to_process, glob_pattern) ==
    [path |-> REFRESH_PROGRESS_MARKER, phase |-> "files", total_files |-> Len(files),
     remaining_files |-> Len(files_to_process), glob_pattern |-> glob_pattern,
     is_dir |-> FALSE]

DirsMarker(dirs_to_update, glob_pattern) ==
    [path |-> REFRESH_PROGRESS_MARKER, phase |-> "directories",
     total_dirs |-> Len(dirs_to_update), glob_pattern |-> glob_pattern,
     is_dir |-> FALSE]

\* a check that does not look at the HEAD marker
has_interrupted_refresh_any_head(d, log) ==
    get(d, REFRESH_PROGRESS_MARKER) # None

has_interrupted_refresh(d, log) ==
    IF get(d, REFRESH_PROGRESS_MARKER) = None THEN FALSE
    ELSE IF cached_hash(d, REPO_HEAD_MARKER) # NoHash
            /\ get_current_head(log) # cached_hash(d, REPO_HEAD_MARKER) THEN FALSE
    ELSE TRUE

\* the check that schedules every file whatever its cached hash
check_files_need_processing_every(d, log, files) == files

check_files_need_processing(d, log, files) ==
    SelectSeq(files, LAMBDA f :
        get(d, f) = None \/ get(d, f).last_commit_hash # get_latest_commit_hash(log, f))

\* refresh, lines 234-251: the progress marker found when resuming, or None
\* when it is absent, not asked for, or invalidated by a moved HEAD
ResumeState(d, log, resume) ==
    IF ~ resume \/ get(d, REFRESH_PROGRESS_MARKER) = None THEN None
    ELSE IF cached_hash(d, REPO_HEAD_MARKER) # NoHash
            /\ get_current_head(log) # cached_hash(d, REPO_HEAD_MARKER) THEN None
    ELSE get(d, REFRESH_PROGRESS_MARKER)

\* an invalidation that starts fresh: with the marker it drops every record
ResumeData_starts_fresh(d, log, resume) ==
    IF resume /\ get(d, REFRESH_PROGRESS_MARKER) # None
       /\ ResumeState(d, log, resume) = None
    THEN <<>>
    ELSE d

\* the map after lines 234-251
ResumeData(d, log, resume) ==
    IF resume /\ get(d, REFRESH_PROGRESS_MARKER) # None
       /\ ResumeState(d, log, resume) = None
    THEN remove_entry(d, REFRESH_PROGRESS_MARKER)
    ELSE d

\* the loop of _process_files_with_progress, lines 359-362
RECURSIVE UpsertFiles(_, _, _)
UpsertFiles(d, todo, all_stats) ==
    IF todo = <<>> THEN d
    ELSE UpsertFiles(IF Head(todo) \in DOMAIN all_stats
                     THEN dict_set(d, all_stats[Head(todo)]) ELSE d,
                     Tail(todo), all_stats)

\* the loop of _process_directories_with_progress, lines 379-407
RECURSIVE UpsertDirs(_, _, _)
UpsertDirs(d, dirs, sd) ==
    IF dirs = <<>> THEN d
    ELSE UpsertDirs(dict_set(d, aggregate_dir_stats(d, Head(dirs), sd)), Tail(dirs), sd)

\* the map a refresh that runs from its first line to its last leaves,
\* started on the map d with the history log, in a process with seed sd
refresh(d, log, glob_pattern, resume, sd) ==
    LET files == get_tracked_files(log, glob_pattern)
        d1 == ResumeData(d, log, resume)
        files_to_process == check_files_need_processing(d1, log, files)
        d2 == IF files_to_process = <<>> THEN d1
              ELSE UpsertFiles(dict_set(d1, FilesMarker(files, files_to_process, glob_pattern)),
                               files_to_process,
                               aggregate_all_file_stats_fast(log, files_to_process, glob_pattern))
        dirs_to_update == SortDirs(get_all_dirs(files))
        d3 == IF dirs_to_update = <<>> THEN d2
              ELSE UpsertDirs(dict_set(d2, DirsMarker(dirs_to_update, glob_pattern)),
                              dirs_to_update, sd)
        d4 == IF get_current_head(log) = NoHash THEN d3
              ELSE dict_set(d3, HeadRecord(get_current_head(log)))
    IN remove_entry(d4, REFRESH_PROGRESS_MARKER)

\* the changed files without the glob filter
ChangedTracked_unfiltered(log, cached_head, current_head, glob_pattern) ==
    SelectSeq(get_changed_files(log, cached_head, current_head), LAMBDA f :
        f \in Range(ls_files(log)))

\* check_and_refresh_stale, lines 199-201
ChangedTracked(log, cached_head, current_head, glob_pattern) ==
    SelectSeq(get_changed_files(log, cached_head, current_head), LAMBDA f :
        f \in Range(get_tracked_files(log, glob_pattern))
        /\ matches_glob_pattern(Str(f), glob_pattern) = "True")

\* ------------------------------------------------------------------ state
VARIABLES
    commits,    \* the repository's history, oldest first
    disk,       \* the cache file
    data,       \* JsonlCache._data of the running process
    pc,         \* where the running process stands ("off": no process)
    crit,       \* _in_critical_section
    seed,       \* the string-hash seed of the running process
    loc,        \* the locals of the cache operation of this process
    runs,       \* processes started so far
    ui,         \* the terminal UI was constructed and run by the last process
    last        \* how the previous process ended (observation only)

vars == <<commits, disk, data, pc, crit, seed, loc, runs, ui, last>>

\* The locals of refresh / check_and_refresh_stale.  sched, d0 and n0 keep what
\* the operation scheduled, the map it started from and the history it saw;
\* result and at say how and where it ended; deferred, whether the signal
\* handler returned without stopping the process during the operation; asked,
\* the newest answer of has_interrupted_refresh ("no": it was not called).
Locals(op, glob_pattern, files, todo, progress_state, changed, current_head, d0, n0) ==
    [op |-> op, glob |-> glob_pattern, files |-> files,
     todo |-> todo, all_stats |-> <<>>, progress_state |-> progress_state,
     changed |-> changed, current_head |-> current_head,
     sched |-> todo, d0 |-> d0, n0 |-> n0, result |-> "running", at |-> "none",
     deferred |-> FALSE, asked |-> "no"]

NoLoc == Locals("none", DEFAULT_GLOB_PATTERN, <<>>, <<>>, None, <<>>, NoHash, <<>>, 0)
NoLast == [kind |-> "none"]

Init ==
    /\ commits = <<>>
    /\ disk = NoFile
    /\ data = <<>>
    /\ pc = "off"
    /\ crit = FALSE
    /\ seed = 0
    /\ loc = NoLoc
    /\ runs = 0
    /\ ui = FALSE
    /\ last = NoLast

\* ------------------------------------------------------------ environment
\* A commit lands.  The process looks at the repository in three steps only
\* (the start of an operation, the bulk log query, refresh's final HEAD
\* lookup); a commit landing between two of them is seen at the later one, so
\* commits are let in right before those steps.
ReadsRepository ==
    pc \in {"idle", "files_agg"} \/ (pc = "head" /\ loc.op = "refresh")

GitCommit(dg, e, d, f) ==
    /\ Len(commits) < MaxCommits
    /\ ReadsRepository
    /\ commits' = Append(commits, Commit(Len(commits) + 1, dg, e, d, f))
    /\ UNCHANGED <<disk, data, pc, crit, seed, loc, runs, ui, last>>

\* ---------------------------------------------------------------- process
\* JsonlCache.__init__: a new process (with its own string-hash seed) loads
\* the cache file
JsonlCache_init ==
    /\ pc = "off"
    /\ runs < MaxRuns
    /\ runs' = runs + 1
    /\ seed' = runs + 1
    /\ data' = load_cache(disk).data
    /\ pc' = "idle"
    /\ ui' = FALSE
    /\ UNCHANGED <<commits, disk, crit, loc, last>>

\* upsert(entry): one append to the file, then the map
Upsert(entry) ==
    /\ disk' = save_entry(disk, entry)
    /\ data' = dict_set(data, entry)

\* refresh, lines 229-259
refresh_begin(glob_pattern, resume) ==
    /\ pc = "idle"
    /\ LET files == get_tracked_files(commits, glob_pattern)
           d1 == ResumeData(data, commits, resume)
           files_to_process == check_files_need_processing(d1, commits, files)
       IN /\ data' = d1
          /\ loc' = Locals("refresh", glob_pattern, files, files_to_process,
                           ResumeState(data, commits, resume), <<>>, NoHash,
                           data, Len(commits))
          /\ pc' = IF files_to_process # <<>> THEN "files_marker" ELSE "dirs_begin"
    /\ UNCHANGED <<commits, disk, crit, seed, runs, ui, last>>

\* refresh, lines 265-272
refresh_files_marker ==
    /\ pc = "files_marker"
    /\ Upsert(FilesMarker(loc.files, loc.todo, loc.glob))
    /\ pc' = "files_agg"
    /\ UNCHANGED <<commits, crit, seed, loc, runs, ui, last>>

\* _process_files_with_progress, lines 348-353
process_files_aggregate ==
    /\ pc = "files_agg"
    /\ crit' = (loc.op = "refresh")
    /\ loc' = [loc EXCEPT !.all_stats =
                  aggregate_all_file_stats_fast(commits, loc.todo, loc.glob)]
    /\ pc' = "files_write"
    /\ UNCHANGED <<commits, disk, data, seed, runs, ui, last>>

\* check_and_refresh_stale, lines 213-221
AffectedDirs == SortDirs(get_all_dirs(loc.changed))

\* _process_files_with_progress, lines 359-365: one round of the loop
process_files_upsert ==
    /\ pc = "files_write"
    /\ LET f == Head(loc.todo)
       IN /\ IF f \in DOMAIN loc.all_stats
             THEN Upsert(loc.all_stats[f])
             ELSE UNCHANGED <<disk, data>>
          /\ IF Tail(loc.todo) # <<>>
             THEN /\ loc' = [loc EXCEPT !.todo = Tail(loc.todo)]
                  /\ UNCHANGED <<pc, crit>>
             ELSE /\ crit' = FALSE
                  /\ IF loc.op = "refresh"
                     THEN /\ pc' = "dirs_begin"
                          /\ loc' = [loc EXCEPT !.todo = <<>>]
                     ELSE /\ pc' = IF AffectedDirs # <<>> THEN "dirs_write" ELSE "head"
                          /\ loc' = [loc EXCEPT !.todo = AffectedDirs]
    /\ UNCHANGED <<commits, seed, runs, ui, last>>

\* refresh, lines 281-294
DirsToUpdate == SortDirs(get_all_dirs(loc.files))

refresh_dirs_begin ==
    /\ pc = "dirs_begin"
    /\ IF DirsToUpdate # <<>>
       THEN /\ Upsert(DirsMarker(DirsToUpdate, loc.glob))
            /\ pc' = "dirs_write"
       ELSE /\ UNCHANGED <<disk, data>>
            /\ pc' = "head"
    /\ loc' = [loc EXCEPT !.todo = DirsToUpdate]
    /\ UNCHANGED <<commits, crit, seed, runs, ui, last>>

\* _process_directories_with_progress, lines 379-407: one round of the loop
\* (the flag is set and cleared within the round)
process_directories_upsert ==
    /\ pc = "dirs_write"
    /\ Upsert(aggregate_dir_stats(data, Head(loc.todo), seed))
    /\ loc' = [loc EXCEPT !.todo = Tail(loc.todo)]
    /\ pc' = IF Tail(loc.todo) # <<>> THEN "dirs_write" ELSE "head"
    /\ UNCHANGED <<commits, crit, seed, runs, ui, last>>

\* refresh, lines 302-305
refresh_head ==
    /\ pc = "head" /\ loc.op = "refresh"
    /\ IF get_current_head(commits) # NoHash
       THEN Upsert(HeadRecord(get_current_head(commits)))
       ELSE UNCHANGED <<disk, data>>
    /\ pc' = "cleanup"
    /\ UNCHANGED <<commits, crit, seed, loc, runs, ui, last>>

\* refresh, lines 307-311
refresh_cleanup ==
    /\ pc = "cleanup"
    /\ data' = remove_entry(data, REFRESH_PROGRESS_MARKER)
    /\ disk' = compact_cache(disk, data')
    /\ pc' = "returned"
    /\ loc' = [loc EXCEPT !.result = "completed", !.at = pc]
    /\ UNCHANGED <<commits, crit, seed, runs, ui, last>>

\* check_and_refresh_stale, lines 176-208
check_and_refresh_stale(glob_pattern) ==
    /\ pc = "idle"
    /\ LET current_head == get_current_head(commits)
           cached_head == cached_hash(data, REPO_HEAD_MARKER)
           changed_files == ChangedTracked(commits, cached_head, current_head, glob_pattern)
           l == Locals("check", glob_pattern, get_tracked_files(commits, glob_pattern),
                       changed_files, None, changed_files, current_head,
                       data, Len(commits))
       IN IF cached_head = current_head
          THEN /\ pc' = "returned"
               /\ loc' = [l EXCEPT !.result = "unchanged", !.todo = <<>>, !.sched = <<>>,
                                   !.changed = <<>>]
          ELSE IF cached_head = NoHash
          THEN /\ pc' = "returned"
               /\ loc' = [l EXCEPT !.result = "need_full", !.todo = <<>>, !.sched = <<>>,
                                   !.changed = <<>>]
          ELSE /\ loc' = l
               /\ pc' = IF changed_files = <<>> THEN "head" ELSE "files_agg"
    /\ UNCHANGED <<commits, disk, data, crit, seed, runs, ui, last>>

\* check_and_refresh_stale when get_changed_files raises GitOperationError
\* (the diff of the two commits cannot be taken), lines 192-197
check_and_refresh_stale_diff_error(glob_pattern) ==
    /\ pc = "idle"
    /\ LET current_head == get_current_head(commits)
           cached_head == cached_hash(data, REPO_HEAD_MARKER)
           l == Locals("check", glob_pattern, <<>>, <<>>, None, <<>>, current_head,
                       data, Len(commits))
       IN /\ cached_head # current_head
          /\ cached_head # NoHash
          /\ loc' = [l EXCEPT !.result = "need_full", !.at = "diff"]
    /\ pc' = "returned"
    /\ UNCHANGED <<commits, disk, data, crit, seed, runs, ui, last>>

\* check_and_refresh_stale, lines 205-206 and 224-227
check_head ==
    /\ pc = "head" /\ loc.op = "check"
    /\ Upsert(HeadRecord(loc.current_head))
    /\ pc' = "returned"
    /\ loc' = [loc EXCEPT !.result = "completed", !.at = pc]
    /\ UNCHANGED <<commits, crit, seed, runs, ui, last>>

\* what `last` keeps of a process that ends
Ended(kind, result, at, mem, k) ==
    [kind |-> kind, op |-> loc.op, result |-> result, at |-> at, mem |-> mem,
     d0 |-> loc.d0, n0 |-> loc.n0, n |-> Len(commits), glob |-> loc.glob,
     sched |-> loc.sched, left |-> loc.todo, cut |-> k, seed |-> seed,
     deferred |-> loc.deferred]

\* gitdu.py main, lines 459-479: the operation returned, the completion
\* message is printed, the UI is constructed and run, the cache is closed
main_ui ==
    /\ pc = "returned"
    /\ ui' = TRUE
    /\ pc' = "off"
    /\ last' = Ended("returned", loc.result, loc.at, data, 0)
    /\ data' = <<>>
    /\ loc' = NoLoc
    /\ UNCHANGED <<commits, disk, crit, seed, runs>>

\* ------------------------------------------------------------- interrupts
InTry == loc.op = "refresh" /\ pc \in {"files_marker", "files_agg", "files_write", "dirs_write"}

\* the step at pc = "dirs_begin" starts outside the try block (lines 281-285)
\* and ends inside it (the marker upsert, lines 286-294)
EntersTry == loc.op = "refresh" /\ pc = "dirs_begin" /\ DirsToUpdate # <<>>

\* a KeyboardInterrupt raised inside refresh's try blocks (lines 263-278,
\* 286-300; _process_files_with_progress lines 367-370): the flag is cleared,
\* the message printed, and refresh returns
KeyboardInterrupt_in_refresh ==
    /\ InTry \/ EntersTry
    /\ crit' = FALSE
    /\ pc' = "returned"
    /\ loc' = [loc EXCEPT !.result = "interrupted", !.at = pc]
    /\ UNCHANGED <<commits, disk, data, seed, runs, ui, last>>

\* a KeyboardInterrupt raised anywhere else in an operation reaches main's
\* handler (gitdu.py lines 469-473): the cache is closed, no UI
KeyboardInterrupt_in_main ==
    /\ loc.op # "none" /\ loc.result = "running" /\ ~ InTry
    /\ crit' = FALSE
    /\ pc' = "off"
    /\ last' = Ended("interrupted", "interrupted", pc, data, 0)
    /\ data' = <<>>
    /\ loc' = NoLoc
    /\ UNCHANGED <<commits, disk, seed, runs, ui>>

\* the record the step at pc is about to append
WritesNext ==
    \/ pc \in {"files_marker", "files_write", "dirs_write"}
    \/ pc = "dirs_begin" /\ DirsToUpdate # <<>>
    \/ pc = "head" /\ (loc.op = "check" \/ get_current_head(commits) # NoHash)

NextEntry ==
    CASE pc = "files_marker" -> FilesMarker(loc.files, loc.todo, loc.glob)
      [] pc = "files_write" -> loc.all_stats[Head(loc.todo)]
      [] pc = "dirs_begin" -> DirsMarker(DirsToUpdate, loc.glob)
      [] pc = "dirs_write" -> aggregate_dir_stats(data, Head(loc.todo), seed)
      [] pc = "head" -> HeadRecord(IF loc.op = "check" THEN loc.current_head
                                   ELSE get_current_head(commits))

\* the cuts of a record's chunks at which a write is let end
TornCuts == {0, 2, 3}

\* an exit that comes only after the write in progress is whole
Dies_after_write(k) ==
    /\ disk' = IF WritesNext THEN save_entry(disk, NextEntry) ELSE disk
    /\ pc' = "off"
    /\ crit' = FALSE
    /\ last' = IF loc.op = "none" THEN last
               ELSE IF loc.result = "running" THEN Ended("stopped", "stopped", pc, data, k)
               ELSE Ended("stopped", loc.result, loc.at, data, k)
    /\ data' = <<>>
    /\ loc' = NoLoc
    /\ UNCHANGED <<commits, seed, runs, ui>>

\* the process ends here; k chunks of the record being written reach the file
Dies(k) ==
    /\ disk' = IF k = 0 THEN disk ELSE torn_entry(disk, NextEntry, k)
    /\ pc' = "off"
    /\ crit' = FALSE
    /\ last' = IF loc.op = "none" THEN last
               ELSE IF loc.result = "running" THEN Ended("stopped", "stopped", pc, data, k)
               ELSE Ended("stopped", loc.result, loc.at, data, k)
    /\ data' = <<>>
    /\ loc' = NoLoc
    /\ UNCHANGED <<commits, seed, runs, ui>>

\* the write of the step at pc happens with the flag set (refresh's file
\* batch, and each round of refresh's directory loop)
InCriticalWrite == loc.op = "refresh" /\ pc \in {"files_write", "dirs_write"}

\* cache.py signal_handler, lines 34-45 (SIGINT): while the flag is set the
\* message is printed and the handler returns; otherwise close and
\* sys.exit(0), which can cut short a write made with the flag clear.
\* noted: whether loc.deferred keeps track of the handler having returned.
HandlerReturns(noted) ==
    /\ crit \/ InCriticalWrite
    /\ loc' = [loc EXCEPT !.deferred = @ \/ noted]
    /\ UNCHANGED <<commits, disk, data, pc, crit, seed, runs, ui, last>>

HandlerExits ==
    /\ ~ crit
    /\ \E k \in TornCuts : (k > 0 => WritesNext /\ ~ InCriticalWrite) /\ Dies(k)

signal_handler ==
    /\ pc # "off"
    /\ HandlerReturns(FALSE) \/ HandlerExits

signal_handler_noted ==
    /\ pc # "off"
    /\ HandlerReturns(TRUE) \/ HandlerExits

\* the process is stopped from outside (SIGKILL, power loss)
process_stop ==
    /\ pc # "off"
    /\ \E k \in TornCuts : (k > 0 => WritesNext) /\ Dies(k)

Next ==
    \/ \E dg \in BOOLEAN, e \in Emails, d \in Dates, f \in Files : GitCommit(dg, e, d, f)
    \/ JsonlCache_init
    \/ \E g \in Globs, r \in BOOLEAN : refresh_begin(g, r)
    \/ refresh_files_marker
    \/ process_files_aggregate
    \/ process_files_upsert
    \/ refresh_dirs_begin
    \/ process_directories_upsert
    \/ refresh_head
    \/ refresh_cleanup
    \/ \E g \in Globs : check_and_refresh_stale(g)
    \/ check_head
    \/ main_ui
    \/ KeyboardInterrupt_in_refresh
    \/ KeyboardInterrupt_in_main
    \/ signal_handler
    \/ process_stop

Spec == Init /\ [][Next]_vars

\* ------------------------------------------------- the cache as a store
\* The cache used through upsert alone, by processes that load the file,
\* write records and end, cleanly or in the middle of a write.  `last` keeps
\* what was written: done, the map of the upserts that returned; torn, the
\* records whose write was cut short; appends, the number of upserts that
\* returned; cut, where the newest write was cut (0: it was not); compacted,
\* whether the file was compacted after the newest write; map, the in-memory
\* map at that compaction; rewritten, whether a compaction ever rewrote the
\* file.
WriteEntries ==
    { [EmptyStats(f) EXCEPT !.commits = v] : f \in Files, v \in 1..MaxVersions }

InitWrite ==
    /\ commits = <<>>
    /\ disk = NoFile
    /\ data = <<>>
    /\ pc = "off"
    /\ crit = FALSE
    /\ seed = 0
    /\ loc = NoLoc
    /\ runs = 0
    /\ ui = FALSE
    /\ last = [kind |-> "writes", done |-> <<>>, torn |-> <<>>, appends |-> 0, cut |-> 0,
               compacted |-> FALSE, map |-> <<>>, rewritten |-> FALSE]

Written == last.appends + Len(last.torn)

\* upsert(entry) runs to its end (cache.py lines 137-139, 99-110)
upsert_returns(entry) ==
    /\ pc = "idle"
    /\ Written < MaxWrites
    /\ Upsert(entry)
    /\ last' = [last EXCEPT !.done = dict_set(@, entry), !.appends = @ + 1, !.cut = 0,
                            !.compacted = FALSE]
    /\ UNCHANGED <<commits, pc, crit, seed, loc, runs, ui>>

\* the process ends (SIGINT with the flag clear, or a stop from outside)
\* after k chunks of the record reached the file
upsert_cut_short(entry, k) ==
    /\ pc = "idle"
    /\ Written < MaxWrites
    /\ disk' = torn_entry(disk, entry, k)
    /\ data' = <<>>
    /\ pc' = "off"
    /\ last' = [last EXCEPT !.torn = Append(@, entry), !.cut = k, !.compacted = FALSE]
    /\ UNCHANGED <<commits, crit, seed, loc, runs, ui>>

\* close(): the process ends between two writes
close ==
    /\ pc = "idle"
    /\ data' = <<>>
    /\ pc' = "off"
    /\ UNCHANGED <<commits, disk, crit, seed, loc, runs, ui, last>>

\* _compact_cache() (cache.py lines 112-131)
compact_cache_runs ==
    /\ pc = "idle"
    /\ ~ last.compacted
    /\ disk' = compact_cache(disk, data)
    /\ last' = [last EXCEPT !.compacted = TRUE, !.map = data,
                            !.rewritten = @ \/ disk.exists]
    /\ UNCHANGED <<commits, data, pc, crit, seed, loc, runs, ui>>

NextWrite ==
    \/ compact_cache_runs
    \/ JsonlCache_init
    \/ \E entry \in WriteEntries : upsert_returns(entry)
    \/ \E entry \in WriteEntries, k \in 1..3 : upsert_cut_short(entry, k)
    \/ close

SpecWrite == InitWrite /\ [][NextWrite]_vars

\* --------------------------------------------- the directories phase alone
\* refresh's directories phase started on a map of file records of any
\* content: up to three files, in any insertion order, each with no
\* attributed commit or with counts, authors and dates drawn from small sets.
RollFiles == { <<"a", "x">>, <<"a", "y">>, <<"a", "b", "z">> }

RollStats(f) ==
    { EmptyStats(f) } \cup
    { [EmptyStats(f) EXCEPT
          !.commits = t[1], !.insertions = t[2], !.deletions = t[3],
          !.authors = au[1], !.latest_author = au[2],
          !.first_commit = dt[1], !.last_commit = dt[2],
          !.last_commit_hash = [id |-> t[1], digit |-> FALSE],
          !.last_commit_message = [id |-> t[1], digit |-> FALSE]] :
        t \in { <<3, 10, 2>>, <<2, 4, 1>> },
        au \in { <<{"u1"}, "u1">>, <<{"u1", "u2"}, "u1">>, <<{"u1", "u2"}, "u2">> },
        dt \in { dd \in (1..MaxRollDate) \X (1..MaxRollDate) : dd[1] <= dd[2] } }

RollPaths(d) == [i \in 1..Len(d) |-> d[i].path]

InitRollup ==
    /\ commits = <<>>
    /\ disk = NoFile
    /\ \E p1 \in RollFiles : \E r1 \in RollStats(p1) :
           \/ data = <<r1>>
           \/ \E p2 \in RollFiles \ {p1} : \E r2 \in RollStats(p2) :
                  \/ data = <<r1, r2>>
                  \/ \E p3 \in RollFiles \ {p1, p2} : \E r3 \in RollStats(p3) :
                         data = <<r1, r2, r3>>
    /\ pc = "dirs_write"
    /\ crit = FALSE
    /\ seed = 1
    /\ loc = Locals("refresh", DEFAULT_GLOB_PATTERN, RollPaths(data),
                    SortDirs(get_all_dirs(RollPaths(data))), None, <<>>, NoHash, data, 0)
    /\ runs = 1
    /\ ui = FALSE
    /\ last = NoLast

NextRollup == process_directories_upsert

SpecRollup == InitRollup /\ [][NextRollup]_vars

\* has_interrupted_refresh() called by the process between operations
has_interrupted_refresh_called ==
    /\ pc \in {"idle", "returned"}
    /\ loc' = [loc EXCEPT !.asked = IF has_interrupted_refresh(data, commits)
                                    THEN "true" ELSE "false"]
    /\ UNCHANGED <<commits, disk, data, pc, crit, seed, runs, ui, last>>

\* ------------------------------------------------------ interrupts alone
\* The lifecycle with the default pattern and commits of one author, where
\* SIGINT is the only thing that stops a process and the handler's returns
\* are kept track of.
NextInterrupt ==
    \/ \E f \in Files : GitCommit(FALSE, "u1", 1, f)
    \/ JsonlCache_init
    \/ \E r \in BOOLEAN : refresh_begin(DEFAULT_GLOB_PATTERN, r)
    \/ refresh_files_marker
    \/ process_files_aggregate
    \/ process_files_upsert
    \/ refresh_dirs_begin
    \/ process_directories_upsert
    \/ refresh_head
    \/ refresh_cleanup
    \/ check_and_refresh_stale(DEFAULT_GLOB_PATTERN)
    \/ check_head
    \/ main_ui
    \/ KeyboardInterrupt_in_refresh
    \/ KeyboardInterrupt_in_main
    \/ signal_handler_noted
    \/ has_interrupted_refresh_called

SpecInterrupt == Init /\ [][NextInterrupt]_vars

\* ------------------------------------------------ the incremental check
\* The lifecycle with both patterns and commits of one author, where a
\* refresh may be interrupted and the diff of the incremental check may fail.
NextStale ==
    \/ \E f \in Files : GitCommit(FALSE, "u1", 1, f)
    \/ JsonlCache_init
    \/ \E g \in Globs, r \in BOOLEAN : refresh_begin(g, r)
    \/ refresh_files_marker
    \/ process_files_aggregate
    \/ process_files_upsert
    \/ refresh_dirs_begin
    \/ process_directories_upsert
    \/ refresh_head
    \/ refresh_cleanup
    \/ \E g \in Globs : check_and_refresh_stale(g)
    \/ \E g \in Globs : check_and_refresh_stale_diff_error(g)
    \/ check_head
    \/ main_ui
    \/ KeyboardInterrupt_in_refresh

SpecStale == Init /\ [][NextStale]_vars

\* ---------------------------------------------------- the matcher alone
\* One call of the matcher on a path of up to MaxDepth segments and a pattern
\* made of a prefix ("", "**/", "**", "**/**/") and a body.
GlobNames ==
    { <<"main", ".go">>, <<"util", ".go">>, <<"pkg">>, <<"suffix">>,
      <<"prefix_", "suffix">>, <<"notes">> }

RECURSIVE JoinNames(_)
JoinNames(names) ==
    IF Len(names) = 1 THEN names[1]
    ELSE names[1] \o <<"/">> \o JoinNames(Tail(names))

GlobPaths ==
    { JoinNames(ns) : ns \in UNION { [1..n -> GlobNames] : n \in 1..MaxDepth } }

PatternPrefixes == { <<>>, StarStarSlash, <<"*", "*">>, StarStarSlash \o StarStarSlash }

PatternBodies ==
    { <<"*", ".go">>, <<"main", ".go">>, <<"suffix">>, <<"*">>, <<"notes">>,
      <<"pkg", "/", "*", ".go">>, <<"pkg", "/", "*">>, <<"/", "pkg">>, <<>> }

GlobPatterns == { pre \o body : pre \in PatternPrefixes, body \in PatternBodies }

InitGlob ==
    /\ commits = <<>>
    /\ disk = NoFile
    /\ data = <<>>
    /\ pc = "idle"
    /\ crit = FALSE
    /\ seed = 1
    /\ \E f \in GlobPaths, g \in GlobPatterns :
           loc = [op |-> "glob", filepath |-> f, pattern |-> g, result |-> "none"]
    /\ runs = 1
    /\ ui = FALSE
    /\ last = NoLast

matches_glob_pattern_called ==
    /\ pc = "idle"
    /\ loc' = [loc EXCEPT !.result = matches_glob_pattern(loc.filepath, loc.pattern)]
    /\ pc' = "returned"
    /\ UNCHANGED <<commits, disk, data, crit, seed, runs, ui, last>>

NextGlob == matches_glob_pattern_called

SpecGlob == InitGlob /\ [][NextGlob]_vars

\* ------------------------------------------------- the two strategies alone
\* A history of up to MaxHistory commits with any hashes, authors, author and
\* committer dates, then both strategies on the tracked files of a pattern.
InitStats ==
    /\ commits = <<>>
    /\ disk = NoFile
    /\ data = <<>>
    /\ pc = "idle"
    /\ crit = FALSE
    /\ seed = 1
    /\ loc = NoLoc
    /\ runs = 1
    /\ ui = FALSE
    /\ last = NoLast

HistoryCommit(dg, e, d, cd, f) ==
    /\ pc = "idle"
    /\ Len(commits) < MaxHistory
    /\ commits' = Append(commits, [cdate |-> cd] @@ Commit(Len(commits) + 1, dg, e, d, f))
    /\ UNCHANGED <<disk, data, pc, crit, seed, loc, runs, ui, last>>

\* data: the fast strategy's records in the order of files; last.standard: the
\* standard strategy's
RunBothStrategies(glob_pattern) ==
    /\ pc = "idle"
    /\ commits # <<>>
    /\ LET files == get_tracked_files(commits, glob_pattern)
           fast == aggregate_all_file_stats_fast(commits, files, glob_pattern)
           standard == aggregate_all_file_stats_standard(commits, files, glob_pattern)
       IN /\ data' = [i \in 1..Len(files) |-> fast[files[i]]]
          /\ last' = [kind |-> "strategies", glob |-> glob_pattern,
                      standard |-> [i \in 1..Len(files) |-> standard[files[i]]]]
    /\ pc' = "returned"
    /\ UNCHANGED <<commits, disk, crit, seed, loc, runs, ui>>

NextStats ==
    \/ \E dg \in BOOLEAN, e \in Emails, d \in 1..MaxLogDate, cd \in 1..MaxLogDate, f \in Files :
           HistoryCommit(dg, e, d, cd, f)
    \/ \E g \in Globs : RunBothStrategies(g)

SpecStats == InitStats /\ [][NextStats]_vars

\* ------------------------------------------------------ the full-tree UI
MaxRecords == 3
MaxPresses == 5

SORT_MODES == <<"commits", "last_commit", "changes", "authors">>

\* one round of the inner loop of build_tree: both entries are created when
\* absent, and current_path is appended to the children of parent_path unless
\* it is there already. The tree is the function from a node's path to its
\* "children" list; a node's "stats" is its record in the cached statistics
add_part_always_appends(tree, parent_path, current_path) ==
    LET t1 == IF parent_path \in DOMAIN tree THEN tree ELSE tree @@ (parent_path :> <<>>)
        t2 == IF current_path \in DOMAIN t1 THEN t1 ELSE t1 @@ (current_path :> <<>>)
    IN [t2 EXCEPT ![parent_path] = Append(@, current_path)]

add_part(tree, parent_path, current_path) ==
    LET t1 == IF parent_path \in DOMAIN tree THEN tree ELSE tree @@ (parent_path :> <<>>)
        t2 == IF current_path \in DOMAIN t1 THEN t1 ELSE t1 @@ (current_path :> <<>>)
    IN IF current_path \in Range(t2[parent_path]) THEN t2
       ELSE [t2 EXCEPT ![parent_path] = Append(@, current_path)]

\* for i in range(len(parts)), from the k-th part on
RECURSIVE add_parts(_, _, _)
add_parts(tree, parts, k) ==
    IF k > Len(parts) THEN tree
    ELSE add_parts(add_part(tree, SubSeq(parts, 1, k - 1), SubSeq(parts, 1, k)),
                   parts, k + 1)

\* build_tree for the entries from the i-th on
RECURSIVE build_tree_from(_, _, _)
build_tree_from(stats, i, tree) ==
    IF i > Len(stats) THEN tree
    ELSE build_tree_from(stats, i + 1, add_parts(tree, stats[i].path, 1))

build_tree(stats) == build_tree_from(stats, 1, <<>>)

\* path_tree.get(parent_path, {}).get("children", [])
children_of(tree, parent_path) ==
    IF parent_path \in DOMAIN tree THEN tree[parent_path] ELSE <<>>

\* child_stats is None for a node without a record ({} in the source); the
\* empty string of the last_commit mode is the least key, as NoDate is
get_sort_key(child_stats, sort_mode_index) ==
    LET sort_mode == SORT_MODES[sort_mode_index + 1]
    IN IF child_stats = None THEN 0
       ELSE CASE sort_mode = "commits" -> child_stats.commits
              [] sort_mode = "last_commit" -> child_stats.last_commit
              [] sort_mode = "changes" -> child_stats.insertions + child_stats.deletions
              [] sort_mode = "authors" -> Cardinality(child_stats.authors)

\* a sort that puts the least key first
RECURSIVE sort_ascending(_)
sort_ascending(children_stats) ==
    IF children_stats = <<>> THEN <<>>
    ELSE LET x == children_stats[Len(children_stats)]
             rest == sort_ascending(SubSeq(children_stats, 1, Len(children_stats) - 1))
         IN SelectSeq(rest, LAMBDA y : y[2] <= x[2]) \o <<x>>
                \o SelectSeq(rest, LAMBDA y : y[2] > x[2])

\* children_stats.sort(key=lambda x: x[1], reverse=True): stable, equal keys
\* keep the order of the list
RECURSIVE sort_reverse(_)
sort_reverse(children_stats) ==
    IF children_stats = <<>> THEN <<>>
    ELSE LET x == children_stats[Len(children_stats)]
             rest == sort_reverse(SubSeq(children_stats, 1, Len(children_stats) - 1))
         IN SelectSeq(rest, LAMBDA y : y[2] >= x[2]) \o <<x>>
                \o SelectSeq(rest, LAMBDA y : y[2] < x[2])

\* add_children(parent_path, parent_node): the nodes added below parent_path,
\* in the order in which they are added; add_each is its loop over the sorted
\* children from the k-th on
RECURSIVE add_children(_, _, _, _), add_each(_, _, _, _, _)
add_children(tree, stats, sort_mode_index, parent_path) ==
    LET children == children_of(tree, parent_path)
        children_stats == [k \in 1..Len(children) |->
             <<children[k], get_sort_key(get(stats, children[k]), sort_mode_index)>>]
    IN add_each(tree, stats, sort_mode_index, sort_reverse(children_stats), 1)

add_each(tree, stats, sort_mode_index, sorted, k) ==
    IF k > Len(sorted) THEN <<>>
    ELSE LET child == sorted[k][1]
             stat == get(stats, child)
             is_dir == IF stat = None THEN children_of(tree, child) # <<>> ELSE stat.is_dir
         IN <<child>>
            \o (IF is_dir THEN add_children(tree, stats, sort_mode_index, child) ELSE <<>>)
            \o add_each(tree, stats, sort_mode_index, sorted, k + 1)

\* _populate_tree(tree_widget)
populate_tree(stats, sort_mode_index) ==
    add_children(build_tree(stats), stats, sort_mode_index, <<>>)

\* the paths a cache file of the UI holds records for, and the numbers of a
\* record: commits, last_commit, insertions, deletions, authors
TuiPaths == { <<"x">>, <<"z">>, <<"a">>, <<"a", "x">>, <<"a", "z">> }

TuiProfiles ==
    { <<1, 2, 10, 0, {"u1", "u2"}>>, <<5, 1, 1, 0, {"u1"}>>,
      <<50, 1, 2, 1, {"u1"}>>, <<0, NoDate, 0, 0, {}>> }

\* the record of a is a directory record, or with the 50-commit profile the
\* record of a file named a (a file record that an earlier refresh left
\* next to the records of a/x and a/z)
TuiRecord(path, n) ==
    [EmptyStats(path) EXCEPT !.commits = n[1], !.last_commit = n[2],
                             !.first_commit = n[2], !.insertions = n[3],
                             !.deletions = n[4], !.authors = n[5],
                             !.is_dir = (path = <<"a">> /\ n[1] # 50)]

\* a cache file of up to MaxRecords records, with or without the HEAD marker
\* in front, before the UI is constructed
InitTui ==
    /\ commits = <<>>
    /\ \E n \in 1..MaxRecords, marked \in BOOLEAN :
       \E ps \in [1..n -> TuiPaths], ns \in [1..n -> TuiProfiles] :
           /\ \A i, j \in 1..n : i # j => ps[i] # ps[j]
           /\ disk = [exists |-> TRUE,
                      text |-> DumpAll((IF marked THEN <<HeadRecord([id |-> 1, digit |-> FALSE])>>
                                        ELSE <<>>)
                                       \o [i \in 1..n |-> TuiRecord(ps[i], ns[i])])]
    /\ data = <<>>
    /\ pc = "tui_new"
    /\ crit = FALSE
    /\ seed = 1
    /\ loc = NoLoc
    /\ runs = 1
    /\ ui = FALSE
    /\ last = NoLast

\* GitDuTUI.__init__: its own JsonlCache loads the file; self.stats is
\* cache.all() without the entries whose path starts with "__"
GitDuTUI_init ==
    /\ pc = "tui_new"
    /\ data' = load_cache(disk).data
    /\ loc' = [op |-> "tui", sort_mode_index |-> 1, presses |-> 0, shown |-> <<>>,
               stats |-> SelectSeq(data', LAMBDA s :
                            s.path \notin {REPO_HEAD_MARKER, REFRESH_PROGRESS_MARKER})]
    /\ pc' = "tui_compose"
    /\ UNCHANGED <<commits, disk, crit, seed, runs, ui, last>>

\* compose(): the tree in the initial sort mode
compose ==
    /\ pc = "tui_compose"
    /\ loc' = [loc EXCEPT !.shown = populate_tree(loc.stats, loc.sort_mode_index)]
    /\ last' = [kind |-> "tui", shown |-> loc'.shown, sort_mode_index |-> loc.sort_mode_index]
    /\ pc' = "tui"
    /\ ui' = TRUE
    /\ UNCHANGED <<commits, disk, data, crit, seed, runs>>

\* an action_cycle_sort that writes the first shown record back to the cache
action_cycle_sort_upserts ==
    /\ pc = "tui"
    /\ loc.presses < MaxPresses
    /\ LET sort_mode_index == (loc.sort_mode_index + 1) % Len(SORT_MODES)
       IN loc' = [loc EXCEPT !.sort_mode_index = sort_mode_index,
                             !.presses = @ + 1,
                             !.shown = populate_tree(loc.stats, sort_mode_index)]
    /\ Upsert(loc.stats[1])
    /\ UNCHANGED <<commits, pc, crit, seed, runs, ui, last>>

\* action_cycle_sort(): the next mode, then refresh_tree()
action_cycle_sort ==
    /\ pc = "tui"
    /\ loc.presses < MaxPresses
    /\ LET sort_mode_index == (loc.sort_mode_index + 1) % Len(SORT_MODES)
       IN loc' = [loc EXCEPT !.sort_mode_index = sort_mode_index,
                             !.presses = @ + 1,
                             !.shown = populate_tree(loc.stats, sort_mode_index)]
    /\ UNCHANGED <<commits, disk, data, pc, crit, seed, runs, ui, last>>

NextTui ==
    \/ GitDuTUI_init
    \/ compose
    \/ action_cycle_sort

SpecTui == InitTui /\ [][NextTui]_vars

\* ---------------------------------------------------- loading any cache file
MaxLines == 3

\* the lines a cache file may hold: whole records (two paths, two versions of
\* each), a record cut inside its body, a number, a list, an empty line
LoadRecord(path, n) == [EmptyStats(path) EXCEPT !.commits = n]

LoadLineKinds ==
    { dump(LoadRecord(p, n)) : p \in {<<"a", "x">>, <<"z">>}, n \in 1..2 }
    \cup { <<LB>>, <<LB, LoadRecord(<<"z">>, 1)>>, <<NUM>>, <<LST>>, <<>> }

RECURSIVE JoinLines(_)
JoinLines(lines) ==
    IF lines = <<>> THEN <<>> ELSE Head(lines) \o <<NL>> \o JoinLines(Tail(lines))

InitLoad ==
    /\ commits = <<>>
    /\ \E n \in 1..MaxLines : \E lines \in [1..n -> LoadLineKinds] :
           disk = [exists |-> TRUE, text |-> JoinLines(lines)]
    /\ data = <<>>
    /\ pc = "off"
    /\ crit = FALSE
    /\ seed = 1
    /\ loc = NoLoc
    /\ runs = 1
    /\ ui = FALSE
    /\ last = NoLast

\* _load_cache() of a new JsonlCache, with what it printed
JsonlCache_load ==
    /\ pc = "off"
    /\ LET r == load_cache(disk)
       IN /\ data' = r.data
          /\ last' = [kind |-> "load", warnings |-> r.warnings, failed |-> r.failed]
    /\ pc' = "idle"
    /\ UNCHANGED <<commits, disk, crit, seed, loc, runs, ui>>

NextLoad == JsonlCache_load

SpecLoad == InitLoad /\ [][NextLoad]_vars

\* ------------------------------------------------------------ the lazy UI
MaxLazyDepth == 4
MaxFaults == 2

max_display_items == 200
ChildLimit == 20

\* the depth the children of a root-level directory are added with when it is
\* not 1
FirstDepth_zero == 1 - 1

FirstDepth == 1

\* the paths of a repository: directories are named d, files f, down to
\* MaxLazyDepth levels; a shape is a set of paths closed under prefixes
LazyPaths ==
    UNION { { p \in [1..n -> {"d", "f"}] : \A i \in 1..(n - 1) : p[i] = "d" } :
            n \in 1..MaxLazyDepth }

LazyShapes ==
    { s \in SUBSET LazyPaths :
        \A p \in s : Len(p) > 1 => SubSeq(p, 1, Len(p) - 1) \in s }

\* the calls of the LazyCache that raise: <<operation, path>>
LazyCalls ==
    { <<"get_directory_files", SubSeq(p, 1, Len(p) - 1)>> : p \in LazyPaths }
    \cup { <<"is_directory", p>> : p \in LazyPaths }
    \cup { <<"get_stats_for_display", p>> : p \in { q \in LazyPaths : q[Len(q)] = "f" } }

\* the sets of at most k failing calls
RECURSIVE FaultSets(_)
FaultSets(k) ==
    IF k = 0 THEN {{}}
    ELSE LET fewer == FaultSets(k - 1)
         IN fewer \cup { s \cup {c} : s \in fewer, c \in LazyCalls }

\* LazyCache.get_directory_files(directory, limit): up to limit immediate
\* children of the directory, files first
get_directory_files(shape, directory, limit) ==
    LET all == SelectSeq(<<Append(directory, "f"), Append(directory, "d")>>,
                         LAMBDA p : p \in shape)
    IN SubSeq(all, 1, IF Len(all) < limit THEN Len(all) ELSE limit)

\* LazyCache.is_directory(path)
is_directory(path) == path[Len(path)] = "d"

\* children.sort()
SortChildren(children) ==
    IF Len(children) = 2 /\ children[1][Len(children[1])] = "f"
    THEN <<children[2], children[1]>> ELSE children

Call(op, path, limit) == [op |-> op, path |-> path, limit |-> limit]

\* a node of the tree: label "dir" (name/), "file" (formatted statistics),
\* "bare" (the name alone) or "error" (the placeholder), under its parent
Node(label, path) == [label |-> label, parent |-> SubSeq(path, 1, Len(path) - 1)]

Built(nodes, calls, raised) == [nodes |-> nodes, calls |-> calls, raised |-> raised]

Then(a, b) == IF a.raised THEN a ELSE Built(a.nodes \o b.nodes, a.calls \o b.calls, b.raised)

\* the file branch: get_stats_for_display and the label, the bare name when
\* the statistics cannot be fetched
file_node(faults, child) ==
    Built(<<Node(IF <<"get_stats_for_display", child>> \in faults THEN "bare" ELSE "file",
                 child)>>,
          <<Call("get_stats_for_display", child, 0)>>, FALSE)

\* _add_directory_children(dir_path, parent_node, depth); add_directory_child
\* is its loop from the k-th child on, left by an exception for the handler
\* that adds the placeholder
RECURSIVE add_directory_children(_, _, _, _), add_directory_child(_, _, _, _, _, _)
add_directory_children(shape, faults, dir_path, depth) ==
    IF depth > 2 THEN Built(<<>>, <<>>, FALSE)
    ELSE LET call == Built(<<>>, <<Call("get_directory_files", dir_path, ChildLimit)>>, FALSE)
         IN IF <<"get_directory_files", dir_path>> \in faults
            THEN Then(call, Built(<<Node("error", Append(dir_path, "error"))>>, <<>>, FALSE))
            ELSE Then(call, add_directory_child(shape, faults, dir_path, depth,
                        SortChildren(get_directory_files(shape, dir_path, ChildLimit)), 1))

add_directory_child(shape, faults, dir_path, depth, children, k) ==
    IF k > Len(children) THEN Built(<<>>, <<>>, FALSE)
    ELSE LET child == children[k]
             call == Built(<<>>, <<Call("is_directory", child, 0)>>, FALSE)
         IN IF <<"is_directory", child>> \in faults
            THEN Then(call, Built(<<Node("error", Append(dir_path, "error"))>>, <<>>, FALSE))
            ELSE Then(call,
                 Then(IF is_directory(child)
                      THEN Then(Built(<<Node("dir", child)>>, <<>>, FALSE),
                                IF depth < 2
                                THEN add_directory_children(shape, faults, child, depth + 1)
                                ELSE Built(<<>>, <<>>, FALSE))
                      ELSE file_node(faults, child),
                      add_directory_child(shape, faults, dir_path, depth, children, k + 1)))

\* the loop of _build_lazy_tree over root_items from the k-th on; an
\* exception of is_directory leaves it and the method
RECURSIVE build_lazy_child(_, _, _, _)
build_lazy_child(shape, faults, root_items, k) ==
    IF k > Len(root_items) THEN Built(<<>>, <<>>, FALSE)
    ELSE LET child == root_items[k]
             call == Built(<<>>, <<Call("is_directory", child, 0)>>, FALSE)
         IN IF <<"is_directory", child>> \in faults
            THEN Then(call, Built(<<>>, <<>>, TRUE))
            ELSE Then(call,
                 Then(IF is_directory(child)
                      THEN Then(Built(<<Node("dir", child)>>, <<>>, FALSE),
                                add_directory_children(shape, faults, child, FirstDepth))
                      ELSE file_node(faults, child),
                      build_lazy_child(shape, faults, root_items, k + 1)))

\* _build_lazy_tree(tree_widget)
build_lazy_tree(shape, faults) ==
    LET call == Built(<<>>, <<Call("get_directory_files", <<>>, max_display_items)>>, FALSE)
    IN IF <<"get_directory_files", <<>>>> \in faults
       THEN Then(call, Built(<<>>, <<>>, TRUE))
       ELSE Then(call, build_lazy_child(shape, faults,
                          get_directory_files(shape, <<>>, max_display_items), 1))

\* a repository shape and up to MaxFaults failing cache calls, before the
\* lazy UI is composed
InitLazy ==
    /\ commits = <<>>
    /\ disk = NoFile
    /\ data = <<>>
    /\ pc = "lazy_new"
    /\ crit = FALSE
    /\ seed = 1
    /\ \E shape \in LazyShapes, faults \in FaultSets(MaxFaults) :
           loc = [op |-> "lazy", shape |-> shape, faults |-> faults]
    /\ runs = 1
    /\ ui = FALSE
    /\ last = NoLast

\* LazyGitDuTUI.compose(): the tree is built; an exception that leaves
\* _build_lazy_tree leaves compose as well
lazy_compose ==
    /\ pc = "lazy_new"
    /\ LET r == build_lazy_tree(loc.shape, loc.faults)
       IN /\ last' = [kind |-> "lazy", nodes |-> r.nodes, calls |-> r.calls,
                      raised |-> r.raised]
          /\ ui' = ~ r.raised
    /\ pc' = "lazy"
    /\ UNCHANGED <<commits, disk, data, crit, seed, loc, runs>>

NextLazy == lazy_compose

SpecLazy == InitLazy /\ [][NextLazy]_vars

\* --------------------------------------------------- the strategy fallback
\* a line of the stream that holds tabs and whose first two fields are no
\* numbers, read after a recognised header: int() raises ValueError, which
\* the handler inside the loop swallows (lines 154-156). Such a line is a
\* header that was not taken for one and whose subject holds two tabs
RaisesValueError(log, i) ==
    /\ ~ IsHeaderLine(log[i])
    /\ log[i].tabs
    /\ \E j \in 1..(i - 1) : IsHeaderLine(log[j])

\* aggregate_all_file_stats_fast with the outcome of subprocess.run: the
\* handlers of CalledProcessError and Exception return the standard
\* strategy's result (lines 171-178)
aggregate_all_file_stats_fast_run(log, files, glob_pattern, outcome) ==
    IF outcome = "CalledProcessError"
    THEN aggregate_all_file_stats_standard(log, files, glob_pattern)
    ELSE aggregate_all_file_stats_fast(log, files, glob_pattern)

\* a commit whose subject may hold tab characters; author and committer date
\* are the same
HistoryCommitLine(dg, tabs, e, d, f) ==
    /\ pc = "idle"
    /\ Len(commits) < MaxHistory
    /\ commits' = Append(commits, [cdate |-> d, tabs |-> tabs]
                                      @@ Commit(Len(commits) + 1, dg, e, d, f))
    /\ UNCHANGED <<disk, data, pc, crit, seed, loc, runs, ui, last>>

\* data: what the fast strategy returns; last.standard: what the standard
\* strategy returns for the same files and pattern
RunFastStrategy(glob_pattern, outcome) ==
    /\ pc = "idle"
    /\ commits # <<>>
    /\ LET files == get_tracked_files(commits, glob_pattern)
           fast == aggregate_all_file_stats_fast_run(commits, files, glob_pattern, outcome)
           standard == aggregate_all_file_stats_standard(commits, files, glob_pattern)
       IN /\ data' = [i \in 1..Len(files) |-> fast[files[i]]]
          /\ last' = [kind |-> "fallback", glob |-> glob_pattern, outcome |-> outcome,
                      unparseable |-> \E i \in 1..Len(commits) : RaisesValueError(commits, i),
                      standard |-> [i \in 1..Len(files) |-> standard[files[i]]]]
    /\ pc' = "returned"
    /\ UNCHANGED <<commits, disk, crit, seed, loc, runs, ui>>

NextFallback ==
    \/ \E dg \in BOOLEAN, tabs \in BOOLEAN, e \in Emails, d \in 1..MaxLogDate, f \in Files :
           HistoryCommitLine(dg, tabs, e, d, f)
    \/ \E g \in Globs, outcome \in {"ok", "CalledProcessError"} : RunFastStrategy(g, outcome)

SpecFallback == InitStats /\ [][NextFallback]_vars

\* ------------------------------------------------- one directory roll-up
\* A cache map with records of files under the directories a.b, axb and a/b,
\* with or without the marker records and a record of a.b itself, and one
\* call of aggregate_dir_stats.
ScopeFiles == << <<"a.b", "x">>, <<"a.b", "z">>, <<"axb", "x">>, <<"a", "b", "x">> >>

ScopeDirs == { <<"a.b">>, <<"axb">>, <<"a">> }

ScopeRecord(path, n, e) ==
    [EmptyStats(path) EXCEPT !.commits = n, !.insertions = n, !.authors = {e},
                             !.first_commit = 1, !.last_commit = 1,
                             !.last_commit_hash = [id |-> n, digit |-> FALSE]]

\* the records of the files whose count is not 0, after the chosen markers
ScopeMap(ns, es, marked, own) ==
    (IF marked THEN <<HeadRecord([id |-> 1, digit |-> FALSE]),
                      DirsMarker(<< <<"a.b">> >>, DEFAULT_GLOB_PATTERN)>> ELSE <<>>)
    \o (IF own THEN <<[EmptyAgg(<<"a.b">>) EXCEPT !.commits = 1]>> ELSE <<>>)
    \o SelectSeq([i \in 1..Len(ScopeFiles) |-> ScopeRecord(ScopeFiles[i], ns[i], es[i])],
                 LAMBDA r : r.commits > 0)

InitScope ==
    /\ commits = <<>>
    /\ disk = NoFile
    /\ \E marked \in BOOLEAN, own \in BOOLEAN :
       \E ns \in [1..Len(ScopeFiles) -> 0..MaxScopeCommits],
          es \in [1..Len(ScopeFiles) -> Emails] :
           data = ScopeMap(ns, es, marked, own)
    /\ pc = "idle"
    /\ crit = FALSE
    /\ seed = 1
    /\ loc = NoLoc
    /\ runs = 1
    /\ ui = FALSE
    /\ last = NoLast

\* aggregate_dir_stats(temp_db, d) over the map
aggregate_dir_stats_called(dir_path) ==
    /\ pc = "idle"
    /\ last' = [kind |-> "agg", dir_path |-> dir_path,
                agg |-> aggregate_dir_stats(data, dir_path, seed)]
    /\ pc' = "returned"
    /\ UNCHANGED <<commits, disk, data, crit, seed, loc, runs, ui>>

NextScope == \E dir_path \in ScopeDirs : aggregate_dir_stats_called(dir_path)

SpecScope == InitScope /\ [][NextScope]_vars

\* ------------------------------------------- compaction and the monitor
\* _compact_cache step by step, a process that may end at any of its steps,
\* and monitor_jsonl_cache reading the file from another process.  disk is the
\* file at the cache path; loc holds the file at the backup path (backup), the
\* entries the rewrite has still to write (todo) and the number of
\* compactions started; last holds the monitor: whether it has opened the
\* file, where the file it holds open is now (at the cache path, at the
\* backup path, or unlinked with the text it had), its read position and what
\* it printed, and what was written: appended, the records upserted since the
\* monitor seeked to the end (and the records a rewrite put into the file the
\* monitor was reading); map, the in-memory map when the newest
\* compaction began; stopped, whether the process ended within that compaction
\* and nothing was written since.
MaxAppends == 3
MaxCompactions == 1

CompactEntries ==
    { [EmptyStats(<<"a", "x">>) EXCEPT !.commits = 1],
      [EmptyStats(<<"a", "x">>) EXCEPT !.commits = 2],
      [EmptyStats(<<"a">>) EXCEPT !.commits = 2, !.is_dir = TRUE],
      HeadRecord([id |-> 1, digit |-> FALSE]) }

InitCompact ==
    /\ commits = <<>>
    /\ disk = NoFile
    /\ data = <<>>
    /\ pc = "off"
    /\ crit = FALSE
    /\ seed = 0
    /\ loc = [op |-> "compact", backup |-> NoFile, todo |-> <<>>, compactions |-> 0,
              appends |-> 0]
    /\ runs = 0
    /\ ui = FALSE
    /\ last = [kind |-> "monitor", open |-> FALSE, at |-> "cache", text |-> <<>>, pos |-> 0,
               printed |-> <<>>, appended |-> <<>>, map |-> <<>>, stopped |-> FALSE]

\* the file the monitor holds open moves with a rename and stays readable
\* after an unlink
Renamed(m) == IF m.open /\ m.at = "cache" THEN [m EXCEPT !.at = "bak"] ELSE m

Unlinked(m, file) ==
    IF m.open /\ m.at = "bak" THEN [m EXCEPT !.at = "gone", !.text = file.text] ELSE m

\* upsert(entry) from the writer
upsert_appends(entry) ==
    /\ pc = "idle"
    /\ loc.appends < MaxAppends
    /\ Upsert(entry)
    /\ loc' = [loc EXCEPT !.appends = @ + 1]
    /\ last' = [last EXCEPT !.appended = IF last.open THEN Append(@, entry) ELSE @,
                            !.stopped = FALSE]
    /\ UNCHANGED <<commits, pc, crit, seed, runs, ui>>

\* _compact_cache, lines 114-121: return when there is no file; else unlink
\* an old backup and rename the cache file to the backup path
compact_cache_rename ==
    /\ pc = "idle"
    /\ disk.exists
    /\ loc.compactions < MaxCompactions
    /\ loc' = [loc EXCEPT !.backup = disk, !.todo = data, !.compactions = @ + 1]
    /\ disk' = NoFile
    /\ last' = [Renamed(Unlinked(last, loc.backup)) EXCEPT !.map = data, !.stopped = FALSE]
    /\ pc' = "compact_renamed"
    /\ UNCHANGED <<commits, data, crit, seed, runs, ui>>

\* line 124: open(self.cache_file, 'w') creates a new, empty file
compact_cache_open ==
    /\ pc = "compact_renamed"
    /\ disk' = [exists |-> TRUE, text |-> <<>>]
    /\ pc' = "compact_writing"
    /\ UNCHANGED <<commits, data, crit, seed, loc, runs, ui, last>>

\* lines 125-127: the next entry of self._data.values() reaches the new file
compact_cache_write ==
    /\ pc = "compact_writing"
    /\ loc.todo # <<>>
    /\ disk' = save_entry(disk, Head(loc.todo))
    /\ loc' = [loc EXCEPT !.todo = Tail(@)]
    /\ last' = [last EXCEPT !.appended = IF last.open /\ last.at = "cache"
                                         THEN Append(@, Head(loc.todo)) ELSE @]
    /\ UNCHANGED <<commits, data, pc, crit, seed, runs, ui>>

\* lines 129-131: the backup is unlinked
compact_cache_unlink ==
    /\ pc = "compact_writing"
    /\ loc.todo = <<>>
    /\ loc' = [loc EXCEPT !.backup = NoFile]
    /\ last' = Unlinked(last, loc.backup)
    /\ pc' = "idle"
    /\ UNCHANGED <<commits, disk, data, crit, seed, runs, ui>>

\* SIGINT with the flag clear (signal_handler: close() and sys.exit(0)), or a
\* stop from outside, between two steps of the writer
writer_stops ==
    /\ pc # "off"
    /\ pc' = "off"
    /\ data' = <<>>
    /\ loc' = [loc EXCEPT !.todo = <<>>]
    /\ last' = [last EXCEPT !.stopped = (pc # "idle")]
    /\ UNCHANGED <<commits, disk, crit, seed, runs, ui>>

\* monitor_jsonl_cache, lines 15-25: wait for the file, open it, seek to its end
monitor_open ==
    /\ ~ last.open
    /\ disk.exists
    /\ last' = [last EXCEPT !.open = TRUE, !.at = "cache", !.pos = Len(disk.text)]
    /\ UNCHANGED <<commits, disk, data, pc, crit, seed, loc, runs, ui>>

\* the text of the file the monitor holds open
MonitorText ==
    CASE last.at = "cache" -> disk.text
      [] last.at = "bak" -> loc.backup.text
      [] OTHER -> last.text

\* f.readline(): up to and including the next newline, or up to the end
RECURSIVE ReadLine(_, _)
ReadLine(text, pos) ==
    IF pos >= Len(text) THEN <<>>
    ELSE IF text[pos + 1] = NL THEN <<NL>>
    ELSE <<text[pos + 1]>> \o ReadLine(text, pos + 1)

\* lines 30-51: what is printed for a line (the line without its newline)
monitor_format(line) ==
    IF ~ IsJsonObject(line) THEN [tag |-> "Invalid JSON", entry |-> line]
    ELSE LET entry == line[2]
         IN IF entry.path = REPO_HEAD_MARKER THEN [tag |-> "HEAD updated", entry |-> entry]
            ELSE IF entry.is_dir THEN [tag |-> "DIR", entry |-> entry]
            ELSE [tag |-> "FILE", entry |-> entry]

\* one round of the loop, lines 27-53, that finds a line; a round that finds
\* none sleeps and changes nothing
monitor_readline ==
    /\ last.open
    /\ last.pos < Len(MonitorText)
    /\ LET line == ReadLine(MonitorText, last.pos)
       IN last' = [last EXCEPT !.pos = @ + Len(line),
                               !.printed = Append(@, monitor_format(
                                               SelectSeq(line, LAMBDA c : c # NL)))]
    /\ UNCHANGED <<commits, disk, data, pc, crit, seed, loc, runs, ui>>

NextCompact ==
    \/ JsonlCache_init
    \/ \E entry \in CompactEntries : upsert_appends(entry)
    \/ compact_cache_rename
    \/ compact_cache_open
    \/ compact_cache_write
    \/ compact_cache_unlink
    \/ writer_stops
    \/ monitor_open
    \/ monitor_readline

\* the monitor's loop never ends by itself: a line that is there to be read
\* is read after at most one sleep of 0.1 s
SpecCompact == InitCompact /\ [][NextCompact]_vars /\ WF_vars(monitor_readline)

\* ------------------------------------------------------- analysing a file
\* analyze_cache of monitor_cache.py next to the load of the same file.  The
\* file holds up to MaxLines lines: records of a file (two versions) and of
\* its directory, the HEAD marker, a progress marker, a record cut inside its
\* body, a number, an empty line.
AnalyzeLineKinds ==
    { dump(LoadRecord(<<"a", "x">>, n)) : n \in 1..2 }
    \cup { dump([EmptyStats(<<"a">>) EXCEPT !.commits = 2, !.is_dir = TRUE]),
           dump(HeadRecord([id |-> 1, digit |-> FALSE])),
           dump(FilesMarker(<< <<"a", "x">> >>, << <<"a", "x">> >>, DEFAULT_GLOB_PATTERN)),
           <<LB, LoadRecord(<<"a", "x">>, 1)>>, <<NUM>>, <<>> }

InitAnalyze ==
    /\ commits = <<>>
    /\ \E n \in 1..MaxLines : \E lines \in [1..n -> AnalyzeLineKinds] :
           disk = [exists |-> TRUE, text |-> JoinLines(lines)]
    /\ data = <<>>
    /\ pc = "off"
    /\ crit = FALSE
    /\ seed = 1
    /\ loc = NoLoc
    /\ runs = 1
    /\ ui = FALSE
    /\ last = NoLast

\* entry.get('is_dir')
get_is_dir(entry) == "is_dir" \in DOMAIN entry /\ entry.is_dir

\* the loop of analyze_cache, lines 74-97; acc = [files, dirs, raised]: a line
\* that is JSON but no object raises AttributeError at entry.get, which
\* nothing handles
RECURSIVE AnalyzeLines(_, _, _)
AnalyzeLines(lines, i, acc) ==
    IF i > Len(lines) THEN acc
    ELSE IF lines[i] = <<>> THEN AnalyzeLines(lines, i + 1, acc)
    ELSE IF IsJsonObject(lines[i])
         THEN LET entry == lines[i][2]
              IN IF entry.path = REPO_HEAD_MARKER THEN AnalyzeLines(lines, i + 1, acc)
                 ELSE AnalyzeLines(lines, i + 1,
                          IF get_is_dir(entry) THEN [acc EXCEPT !.dirs = @ + 1]
                          ELSE [acc EXCEPT !.files = @ + 1])
    ELSE IF IsJsonScalar(lines[i]) \/ IsJsonList(lines[i]) THEN [acc EXCEPT !.raised = TRUE]
    ELSE AnalyzeLines(lines, i + 1, acc)

\* analyze_cache(cache_file): the counts it has when the loop ends
analyze_cache(file) ==
    AnalyzeLines(SplitLines(file.text, <<>>), 1, [files |-> 0, dirs |-> 0, raised |-> FALSE])

\* analyze_cache run on the file a JsonlCache has loaded
analyze_cache_called ==
    /\ pc = "idle"
    /\ last' = [kind |-> "analyze", report |-> analyze_cache(disk), failed |-> last.failed]
    /\ pc' = "analyzed"
    /\ UNCHANGED <<commits, disk, data, crit, seed, loc, runs, ui>>

NextAnalyze ==
    \/ JsonlCache_load
    \/ analyze_cache_called

SpecAnalyze == InitAnalyze /\ [][NextAnalyze]_vars

\* ------------------------------------------------------- a write that fails
\* The lifecycle with the default pattern and commits of one author, where an
\* upsert may raise (open or write of _save_entry fails with OSError: disk
\* full, file made read-only) and SIGINT may arrive at any time.

\* upsert raises inside _process_files_with_progress or
\* _process_directories_with_progress: neither has a handler for anything
\* but KeyboardInterrupt, nor has refresh, so the exception leaves them with
\* the flag as it is on its way to main
upsert_raises ==
    /\ pc \in {"files_write", "dirs_write"}
    /\ pc = "files_write" => Head(loc.todo) \in DOMAIN loc.all_stats
    /\ crit' = (crit \/ InCriticalWrite)
    /\ pc' = "raised"
    /\ loc' = [loc EXCEPT !.result = "raised", !.at = pc]
    /\ UNCHANGED <<commits, disk, data, seed, runs, ui, last>>

\* gitdu.py main, lines 476-479: the finally clause closes the cache and the
\* exception ends the process
main_finally ==
    /\ pc = "raised"
    /\ pc' = "off"
    /\ crit' = FALSE
    /\ last' = Ended("raised", loc.result, loc.at, data, 0)
    /\ data' = <<>>
    /\ loc' = NoLoc
    /\ UNCHANGED <<commits, disk, seed, runs, ui>>

NextRaise ==
    \/ \E f \in Files : GitCommit(FALSE, "u1", 1, f)
    \/ JsonlCache_init
    \/ \E r \in BOOLEAN : refresh_begin(DEFAULT_GLOB_PATTERN, r)
    \/ refresh_files_marker
    \/ process_files_aggregate
    \/ process_files_upsert
    \/ refresh_dirs_begin
    \/ process_directories_upsert
    \/ refresh_head
    \/ refresh_cleanup
    \/ check_and_refresh_stale(DEFAULT_GLOB_PATTERN)
    \/ check_head
    \/ main_ui
    \/ KeyboardInterrupt_in_refresh
    \/ KeyboardInterrupt_in_main
    \/ signal_handler_noted
    \/ upsert_raises
    \/ main_finally

SpecRaise == Init /\ [][NextRaise]_vars

\* ------------------------------------------------- resuming and not resuming
\* The lifecycle started on the cache file an earlier completed refresh left
\* (or on none), with both patterns and commits of one author: a refresh,
\* resuming or not, may be interrupted, and the next process may refresh again
\* on a cache that holds a marker of either phase and pattern, with the HEAD
\* record of the earlier refresh or without one.
InitResume ==
    /\ \E n \in 0..1, f \in Files, g \in Globs :
          /\ commits = [i \in 1..n |-> Commit(i, FALSE, "u1", 1, f)]
          /\ disk = IF n = 0 THEN NoFile
                    ELSE [exists |-> TRUE,
                          text |-> DumpAll(refresh(<<>>, commits, g, FALSE, 0))]
    /\ data = <<>>
    /\ pc = "off"
    /\ crit = FALSE
    /\ seed = 0
    /\ loc = NoLoc
    /\ runs = 0
    /\ ui = FALSE
    /\ last = NoLast

NextResume ==
    \/ \E f \in Files : GitCommit(FALSE, "u1", 1, f)
    \/ JsonlCache_init
    \/ \E g \in Globs, r \in BOOLEAN : refresh_begin(g, r)
    \/ refresh_files_marker
    \/ process_files_aggregate
    \/ process_files_upsert
    \/ refresh_dirs_begin
    \/ process_directories_upsert
    \/ refresh_head
    \/ refresh_cleanup
    \/ main_ui
    \/ KeyboardInterrupt_in_refresh

SpecResume == InitResume /\ [][NextResume]_vars

\* ================================================================== claims
\* a record with the seed of a synthetic directory hash left out: what is
\* compared is the tuple of child hashes that was hashed
IsSynthetic(h) == "synthetic" \in DOMAIN h

Unseeded(r) ==
    IF "last_commit_hash" \in DOMAIN r /\ IsSynthetic(r.last_commit_hash)
    THEN [r EXCEPT !.last_commit_hash = [synthetic |-> @.synthetic]]
    ELSE r

UnseededMap(d) == [p \in Paths(d) |-> Unseeded(get(d, p))]

\* the previous process ran refresh and stopped in the files phase after some
\* but not all scheduled file records were appended; this process runs
\* refresh with the same pattern and the repository has not changed
C1_Rerun ==
    /\ last.kind # "none"
    /\ last.op = "refresh"
    /\ last.result \in {"stopped", "interrupted"}
    /\ last.at = "files_write"
    /\ last.left # <<>>
    /\ Len(last.left) < Len(last.sched)
    /\ last.n0 = last.n
    /\ loc.op = "refresh"
    /\ loc.glob = last.glob
    /\ loc.n0 = last.n
    /\ Len(commits) = last.n

C1_NoMatchingFileScheduled ==
    \A i \in 1..Len(loc.sched) :
        ~ (/\ get(loc.d0, loc.sched[i]) # None
           /\ get(loc.d0, loc.sched[i]).last_commit_hash
                  = get_latest_commit_hash(commits, loc.sched[i]))

C1_Finished == pc = "returned" /\ loc.result = "completed"

\* C1 (amended): after a refresh stopped partway through the files phase, a
\* second refresh on the reloaded cache with no repository change schedules no
\* file whose cached hash equals its latest commit hash, and ends with the
\* per-path state of a single uninterrupted refresh, up to the per-process
\* seed of synthetic directory hashes.
C1_Resumability ==
    C1_Rerun =>
        /\ C1_NoMatchingFileScheduled
        /\ C1_Finished =>
               UnseededMap(data)
                 = UnseededMap(refresh(last.d0, commits, loc.glob, FALSE, last.seed))

\* C1 as stated: the final per-path state equals that of the uninterrupted
\* refresh (run in the first process)
C1_AsStated ==
    C1_Rerun =>
        /\ C1_NoMatchingFileScheduled
        /\ C1_Finished =>
               AsMap(data) = AsMap(refresh(last.d0, commits, loc.glob, FALSE, last.seed))

C1_Witness == C1_Rerun /\ C1_Finished /\ loc.sched # <<>>

\* ------------------------------------------------------------------- C2
NoDigitHashes == \A i \in 1..Len(commits) : ~ commits[i].hash.digit

\* the previous process completed a refresh; this process runs refresh with
\* the same pattern and the repository has not changed since the first began
C2_TwiceInARow ==
    /\ last.kind # "none"
    /\ last.op = "refresh"
    /\ last.result = "completed"
    /\ last.n0 = last.n
    /\ loc.op = "refresh"
    /\ loc.glob = last.glob
    /\ loc.n0 = last.n
    /\ Len(commits) = last.n

\* C2: refresh run twice in a row with no repository change schedules no file
\* in the second run and leaves every path's record as it was (shown here for
\* histories whose hashes do not start with a digit, and up to the seed of
\* synthetic hashes).
C2_IdempotentRefresh ==
    (C2_TwiceInARow /\ NoDigitHashes) =>
        /\ loc.sched = <<>>
        /\ C1_Finished => UnseededMap(data) = UnseededMap(last.mem)

\* ------------------------------------------------------------------- C3
\* the previous process was interrupted in a refresh, this process loaded a
\* progress marker, and commits have landed since
C3_CommitsAfterInterrupt ==
    /\ pc = "idle"
    /\ last.kind # "none"
    /\ last.op = "refresh"
    /\ last.result \in {"stopped", "interrupted"}
    /\ last.cut = 0
    /\ get(data, REFRESH_PROGRESS_MARKER) # None
    /\ Len(commits) > last.n

\* C3: when commits land after an interrupted refresh, with or without a
\* cached head record, has_interrupted_refresh() is false and
\* refresh(resume=True) drops the marker and does not resume.
C3_StaleResumeRejected ==
    C3_CommitsAfterInterrupt =>
        /\ ~ has_interrupted_refresh(data, commits)
        /\ ResumeState(data, commits, TRUE) = None
        /\ get(ResumeData(data, commits, TRUE), REFRESH_PROGRESS_MARKER) = None

\* ------------------------------------------------------------------- C4
\* C4: when refresh() or check_and_refresh_stale() returns after completing
\* its work, no progress marker is in the map nor in the reloaded file, and
\* has_interrupted_refresh() is false on the next run.
C4_MarkerGoneAfterCompletion ==
    (pc = "returned" /\ loc.result = "completed") =>
        /\ get(data, REFRESH_PROGRESS_MARKER) = None
        /\ get(load_cache(disk).data, REFRESH_PROGRESS_MARKER) = None
        /\ ~ has_interrupted_refresh(load_cache(disk).data, commits)

\* ------------------------------------------------------------------- C5
AllFilesCurrent(d) ==
    \A f \in Range(ls_files(commits)) :
        get(d, f) # None /\ get(d, f).last_commit_hash = get_latest_commit_hash(commits, f)

\* C5: whenever the cached head equals the repository's HEAD, every tracked
\* file has a record whose hash is the file's latest commit (shown here for
\* the first process, the default pattern, hashes that do not start with a
\* digit, and files committed once).
C5_HeadImpliesCurrent ==
    (/\ runs = 1 /\ pc # "off"
     /\ loc.glob = DEFAULT_GLOB_PATTERN
     /\ NoDigitHashes
     /\ \A i, j \in 1..Len(commits) : i # j => commits[i].file # commits[j].file
     /\ get_current_head(commits) # NoHash
     /\ cached_hash(data, REPO_HEAD_MARKER) = get_current_head(commits))
        => AllFilesCurrent(data)

\* ------------------------------------------------------------------- C6
\* the previous process completed a full refresh at H1, one commit (to file
\* X) has landed since, and this process completed check_and_refresh_stale
C6_IncrementalDone ==
    /\ last.kind # "none"
    /\ last.op = "refresh"
    /\ last.result = "completed"
    /\ last.glob = DEFAULT_GLOB_PATTERN
    /\ last.d0 = <<>>
    /\ last.n0 = last.n
    /\ pc = "returned"
    /\ loc.op = "check"
    /\ loc.result = "completed"
    /\ loc.glob = DEFAULT_GLOB_PATTERN
    /\ loc.n0 = last.n + 1
    /\ Len(commits) = loc.n0
    /\ Len(loc.changed) = 1
    /\ NoDigitHashes

\* C6: the records the incremental refresh leaves for X and for X's ancestor
\* directories equal those of a full refresh from an empty cache at H2.
C6_IncrementalEquivalence ==
    C6_IncrementalDone =>
        \A p \in Range(loc.changed) \cup get_all_dirs(loc.changed) :
            get(data, p) = get(refresh(<<>>, commits, DEFAULT_GLOB_PATTERN, FALSE, seed), p)

\* ------------------------------------------------------------------- C7
\* the process that just ended was interrupted in refresh's files or
\* directories phase, between two writes
C7_Interrupted ==
    /\ pc = "off"
    /\ last.kind # "none"
    /\ last.op = "refresh"
    /\ last.result \in {"stopped", "interrupted"}
    /\ last.at \in {"files_agg", "files_write", "dirs_write"}
    /\ last.cut = 0

\* C7: after an interruption of refresh in the files or directories phase,
\* reloading the file yields every record upserted before it, a progress
\* marker with the interrupted phase, and the head record not advanced.
C7_InterruptionKeepsProgress ==
    C7_Interrupted =>
        LET m == load_cache(disk).data
        IN /\ \A p \in Paths(last.mem) : get(m, p) = get(last.mem, p)
           /\ get(m, REFRESH_PROGRESS_MARKER) # None
           /\ get(m, REFRESH_PROGRESS_MARKER).phase
                  = (IF last.at = "dirs_write" THEN "directories" ELSE "files")
           /\ cached_hash(m, REPO_HEAD_MARKER) = cached_hash(last.d0, REPO_HEAD_MARKER)

\* ------------------------------------------------------------------- C8
\* C8: a process whose refresh was interrupted in the files or directories
\* phase ends without the completion message and without the terminal UI.
C8_InterruptPropagates ==
    (/\ pc = "off"
     /\ last.kind # "none"
     /\ last.op = "refresh"
     /\ last.result = "interrupted"
     /\ last.at \in {"files_marker", "files_agg", "files_write", "dirs_begin", "dirs_write"})
        => ~ ui

\* ------------------------------------------------------------------- C9
\* C9: whatever writes were cut short, the reloaded file has, for every path,
\* the newest record whose upsert returned, or a record that was being
\* written when a process ended.
C9_AtMostTheTornRecordLost ==
    \A p \in Paths(last.done) :
        \/ get(load_cache(disk).data, p) = get(last.done, p)
        \/ get(load_cache(disk).data, p) \in Range(last.torn)

\* ------------------------------------------------------------------ C10
\* the file is a sequence of whole appended lines followed by one line that
\* was cut short
C10_TruncatedLastLine ==
    /\ pc = "off"
    /\ ~ last.rewritten
    /\ Len(last.torn) = 1
    /\ last.cut # 0

\* C10 (amended): with the last line cut inside its JSON body, loading gives
\* the newest record of every path among the whole lines and one warning, for
\* the last line; with the cut between the body and the newline, the last
\* record is loaded as well and there is no warning.
C10_TruncationRecovered ==
    C10_TruncatedLastLine =>
        IF last.cut < Len(dump(last.torn[1]))
        THEN /\ AsMap(load_cache(disk).data) = AsMap(last.done)
             /\ load_cache(disk).warnings = <<last.appends + 1>>
        ELSE /\ AsMap(load_cache(disk).data) = AsMap(dict_set(last.done, last.torn[1]))
             /\ load_cache(disk).warnings = <<>>

\* C10 as stated: every cut inside the last line gives the records of the
\* whole lines and a warning for the last line
C10_AsStated ==
    C10_TruncatedLastLine =>
        /\ AsMap(load_cache(disk).data) = AsMap(last.done)
        /\ load_cache(disk).warnings = <<last.appends + 1>>

C10_Witness ==
    C10_TruncatedLastLine /\ last.appends >= 2 /\ last.cut < Len(dump(last.torn[1]))

\* ------------------------------------------------------------------ C11
Lines(file) == SplitLines(file.text, <<>>)

\* C11: after upserts followed by _compact_cache the file holds exactly one
\* line per path of the in-memory map, each line is that path's record in the
\* map (the last-written values, when no write was ever cut short), and
\* reloading the file yields the map as it was before compaction.
C11_CompactionCorrect ==
    (last.compacted /\ last.appends > 0) =>
        /\ Len(Lines(disk)) = Cardinality(Paths(last.map))
        /\ \A i \in 1..Len(Lines(disk)) :
               /\ IsJsonObject(Lines(disk)[i])
               /\ Lines(disk)[i][2] = get(last.map, Lines(disk)[i][2].path)
        /\ AsMap(load_cache(disk).data) = AsMap(last.map)
        /\ load_cache(disk).warnings = <<>>
        /\ last.torn = <<>> => AsMap(last.map) = AsMap(last.done)

\* the same path was upserted three times and the file compacted
C11_Witness ==
    /\ last.compacted
    /\ last.appends = 3
    /\ last.torn = <<>>
    /\ Cardinality(Paths(last.map)) = 1

\* ------------------------------------------------------------------ C12
\* the sum of a field over the file records of d below dir_path
RECURSIVE SumOverFiles(_, _, _, _)
SumOverFiles(d, i, dir_path, field) ==
    IF i > Len(d) THEN 0
    ELSE (IF ~ d[i].is_dir /\ UnderDir(dir_path, d[i].path) THEN d[i][field] ELSE 0)
         + SumOverFiles(d, i + 1, dir_path, field)

RefreshCompleted == pc = "returned" /\ loc.op = "refresh" /\ loc.result = "completed"

\* C12: after a completed full refresh, every directory record's commits,
\* insertions and deletions are the sums over the file records below it.
C12_DirTotalsAreFileSums ==
    RefreshCompleted =>
        \A i \in 1..Len(data) :
            data[i].is_dir =>
                \A field \in {"commits", "insertions", "deletions"} :
                    data[i][field] = SumOverFiles(data, 1, data[i].path, field)

\* ------------------------------------------------------------------ C13
FilesOnlyBelow(d, dir_path) ==
    \A j \in 1..Len(d) : UnderDir(dir_path, d[j].path) => ~ d[j].is_dir

AuthorsBelow(d, dir_path) ==
    UNION { d[j].authors : j \in { k \in 1..Len(d) : UnderDir(dir_path, d[k].path) } }

\* C13: for a directory with file records only below it, the roll-up has
\* commits, insertions and deletions equal to the sums over those files and
\* authors equal to the union of their authors.
C13_RollupOverFiles ==
    \A i \in 1..Len(data) :
        (data[i].is_dir /\ FilesOnlyBelow(data, data[i].path)) =>
            /\ \A field \in {"commits", "insertions", "deletions"} :
                   data[i][field] = SumOverFiles(data, 1, data[i].path, field)
            /\ data[i].authors = AuthorsBelow(data, data[i].path)

\* a/x (3, 10, 2, u1) and a/y (2, 4, 1, u1 and u2) give a = (5, 14, 3, u1 and u2)
C13_Witness ==
    /\ Paths(data) = { <<"a", "x">>, <<"a", "y">>, <<"a">> }
    /\ get(data, <<"a", "x">>).commits = 3 /\ get(data, <<"a", "x">>).insertions = 10
    /\ get(data, <<"a", "x">>).deletions = 2 /\ get(data, <<"a", "x">>).authors = {"u1"}
    /\ get(data, <<"a", "y">>).commits = 2 /\ get(data, <<"a", "y">>).insertions = 4
    /\ get(data, <<"a", "y">>).deletions = 1 /\ get(data, <<"a", "y">>).authors = {"u1", "u2"}
    /\ get(data, <<"a">>).commits = 5 /\ get(data, <<"a">>).insertions = 14
    /\ get(data, <<"a">>).deletions = 3 /\ get(data, <<"a">>).authors = {"u1", "u2"}

\* ------------------------------------------------------------------ C14
Below(d, dir_path) == { k \in 1..Len(d) : UnderDir(dir_path, d[k].path) }

DatesBelow(d, dir_path, field) == { d[k][field] : k \in Below(d, dir_path) } \ {NoDate}

MinDate(S) == IF S = {} THEN NoDate ELSE CHOOSE x \in S : \A y \in S : x <= y

MaxOfDates(S) == IF S = {} THEN NoDate ELSE CHOOSE x \in S : \A y \in S : x >= y

DirsPhaseDone == pc = "head" /\ loc.op = "refresh"

StrategiesRan == pc = "returned" /\ last.kind = "strategies"

\* C15: both strategies return the same commits, insertions, deletions and
\* authors for every requested file, and the same last_commit_hash and
\* latest_author, those of the newest commit touching the file.
C15_StrategiesAgree ==
    StrategiesRan =>
        \A i \in 1..Len(data) :
            /\ \A field \in {"commits", "insertions", "deletions", "authors",
                              "last_commit_hash", "latest_author"} :
                   data[i][field] = last.standard[i][field]
            /\ data[i].last_commit_hash = get_latest_commit_hash(commits, data[i].path)

\* ------------------------------------------------------------------ C16
LastTouch(log, path) ==
    log[CHOOSE i \in 1..Len(log) :
            /\ log[i].file = path
            /\ \A j \in 1..Len(log) : log[j].file = path => j <= i]

\* C16: the fast strategy records for each file the hash, author and message
\* of the last commit of the stream that touches it, so its last_commit_hash
\* is the one get_latest_commit_hash returns (stated for histories whose
\* header lines are all recognised).
C16_FastLatestIsLastTouch ==
    (StrategiesRan /\ NoDigitHashes) =>
        \A i \in 1..Len(data) :
            /\ data[i].last_commit_hash = LastTouch(commits, data[i].path).hash
            /\ data[i].latest_author = LastTouch(commits, data[i].path).email
            /\ data[i].last_commit_message = LastTouch(commits, data[i].path).hash
            /\ data[i].last_commit_hash = get_latest_commit_hash(commits, data[i].path)

\* ------------------------------------------------------------------ C17
\* C17: an interrupt that arrives while the flag is set takes effect once the
\* unit of work in progress is written: the refresh it arrived in does not
\* run to completion and the UI is not started after it.
C17_DeferredInterruptTakesEffect ==
    /\ ~ (pc = "returned" /\ loc.op = "refresh" /\ loc.deferred /\ loc.result = "completed")
    /\ ~ (ui /\ last.kind = "returned" /\ last.op = "refresh" /\ last.deferred
             /\ last.result = "completed")

\* ------------------------------------------------------------------ C18
NewLines(file) == Cardinality({ i \in 1..Len(file.text) : file.text[i] = NL })

IsPrefix(s, t) == Len(s) <= Len(t) /\ SubSeq(t, 1, Len(s)) = s

HeadOnDisk(file) == cached_hash(load_cache(file).data, REPO_HEAD_MARKER)

\* the hashes of the HEAD marker records written to the file so far
HeadsInFile(file) ==
    { file.text[i].last_commit_hash :
        i \in { j \in 1..Len(file.text) :
                   /\ "path" \in DOMAIN file.text[j]
                   /\ file.text[j].path = REPO_HEAD_MARKER } }

\* the step of the handler that ends the process
SigintExit == pc # "off" /\ pc' = "off" /\ last' # last /\ last'.kind = "stopped"

MarkerCached == \E i \in 1..Len(data) : data[i].path = REFRESH_PROGRESS_MARKER

HeadHashCached ==
    IF \E i \in 1..Len(data) : data[i].path = REPO_HEAD_MARKER
    THEN (CHOOSE r \in Range(data) : r.path = REPO_HEAD_MARKER).last_commit_hash
    ELSE NoHash

\* C19: has_interrupted_refresh() answers true exactly when a progress marker
\* is in the loaded cache and either no HEAD hash is cached or the cached hash
\* is the repository's HEAD; the call changes neither the map nor the file.
C19_ResumableIff ==
    [][loc'.asked \notin {"no", loc.asked} =>
          /\ pc' = pc
          /\ loc'.asked = "true" <=>
                 /\ MarkerCached
                 /\ HeadHashCached = NoHash \/ HeadHashCached = get_current_head(commits)
          /\ data' = data
          /\ disk' = disk]_vars

\* answers seen: true with a cached hash equal to HEAD; false with a marker
\* and a moved HEAD
C19_Witness ==
    /\ loc.asked = "true"
    /\ MarkerCached
    /\ HeadHashCached # NoHash
    /\ HeadHashCached = get_current_head(commits)

C19_WitnessMoved ==
    /\ loc.asked = "false"
    /\ MarkerCached
    /\ HeadHashCached # NoHash
    /\ HeadHashCached # get_current_head(commits)

\* ------------------------------------------------------------------ C20
Matched == pc = "returned" /\ loc.op = "glob"

BaseName(filepath) == Parts(filepath)[Len(Parts(filepath))]

EndsWith(name, S) ==
    Len(S) <= Len(name) /\ SubSeq(name, Len(name) - Len(S) + 1, Len(name)) = S

\* the last segments of filepath match the segments of X, one by one
TailMatches(filepath, X) ==
    LET n == Len(Parts(filepath))
        k == Len(Parts(X))
    IN k <= n /\ \A i \in 1..k : fnmatchcase(Parts(filepath)[n - k + i], Parts(X)[i])

\* bodies X of one or more segments, and literal names S
SegmentBodies == { X \in PatternBodies : X # <<>> /\ Head(X) # "/" }

LiteralBodies == { S \in PatternBodies : S # <<>> /\ \A i \in 1..Len(S) : S[i] \notin {"*", "/"} }

\* C20: the matcher answers true for every path under the default pattern;
\* under **/X it answers true exactly for the paths whose last segments match
\* X, at the root level as well as inside directories; under **S it answers
\* true exactly for the paths whose name is S or ends in S; and it answers
\* false, not an error, for the other paths under these patterns.
C20_GlobMatcher ==
    Matched =>
        /\ loc.pattern = DEFAULT_GLOB_PATTERN => loc.result = "True"
        /\ \A X \in SegmentBodies :
               loc.pattern = StarStarSlash \o X =>
                   loc.result = IF TailMatches(loc.filepath, X) THEN "True" ELSE "False"
        /\ \A S \in LiteralBodies :
               loc.pattern = <<"*", "*">> \o S =>
                   loc.result = IF EndsWith(BaseName(loc.filepath), S) THEN "True" ELSE "False"

\* **/*.go on the root-level main.go
C20_Witness ==
    /\ Matched
    /\ loc.pattern = <<"*", "*", "/", "*", ".go">>
    /\ loc.filepath = <<"main", ".go">>
    /\ loc.result = "True"

\* the other cases named: **/*.go on pkg/util.go, **suffix on prefix_suffix
\* and on suffix, and a path no fallback matches
C20_WitnessNested ==
    /\ Matched
    /\ loc.pattern = <<"*", "*", "/", "*", ".go">>
    /\ loc.filepath = <<"pkg", "/", "util", ".go">>
    /\ loc.result = "True"

C20_WitnessSuffix ==
    /\ Matched
    /\ loc.pattern = <<"*", "*", "suffix">>
    /\ loc.filepath \in { <<"prefix_", "suffix">>, <<"suffix">> }
    /\ loc.result = "True"

C20_WitnessNoMatch ==
    /\ Matched
    /\ loc.pattern = <<"*", "*", "/", "*", ".go">>
    /\ loc.filepath = <<"pkg", "/", "notes">>
    /\ loc.result = "False"

Parent(p) == SubSeq(p, 1, Len(p) - 1)

\* the key the tree was sorted by, of the node at position i of loc.shown
ShownKey(i) == get_sort_key(get(loc.stats, loc.shown[i]), loc.sort_mode_index)

SiblingsNonIncreasing ==
    \A i, j \in 1..Len(loc.shown) :
        i < j /\ Parent(loc.shown[i]) = Parent(loc.shown[j]) => ShownKey(i) >= ShownKey(j)

\* C21: once the tree is composed, the children of every node are in
\* non-increasing order of the active mode's key; sort_mode_index starts at 1,
\* stays within 0..3, and after four action_cycle_sort invocations it is 1
\* again and the tree is the one first composed (so is every sibling order)
C21_SortCycle ==
    /\ pc = "tui_compose" => loc.sort_mode_index = 1
    /\ pc = "tui" =>
          /\ loc.sort_mode_index \in 0..3
          /\ loc.sort_mode_index = (1 + loc.presses) % 4
          /\ SiblingsNonIncreasing
          /\ loc.presses = 4 => loc.sort_mode_index = last.sort_mode_index
                                /\ loc.shown = last.shown

\* siblings with 1, 5 and 50 commits, cached in that order, shown as 50, 5, 1
\* in the Commits mode reached by the third press, and back in the first
\* order, which differs, after the fourth
C21_Witness ==
    /\ pc = "tui"
    /\ loc.presses = 3
    /\ loc.sort_mode_index = 0
    /\ Len(loc.stats) = 3
    /\ [i \in 1..3 |-> loc.stats[i].commits] = <<1, 5, 50>>
    /\ \A i \in 1..3 : Len(loc.stats[i].path) = 1
    /\ loc.shown = <<loc.stats[3].path, loc.stats[2].path, loc.stats[1].path>>
    /\ last.shown # loc.shown

C21_WitnessCycled ==
    /\ pc = "tui"
    /\ loc.presses = 4
    /\ Len(loc.shown) = 3
    /\ \E i \in 1..2 : ShownKey(i) = ShownKey(i + 1)
    /\ \E i \in 1..2 : ShownKey(i) > ShownKey(i + 1)

\* C25: no step of the full-tree UI changes the cache file; constructing it
\* loads the map of its own cache object from the file, and composing the tree
\* and every action_cycle_sort leave that map as loaded
C25_UiLeavesCache ==
    [][/\ disk' = disk
       /\ pc = "tui_new" => data' = load_cache(disk).data
       /\ pc \in {"tui_compose", "tui"} => data' = data]_vars

\* a tree of several records shown after several presses, over a file that
\* holds the HEAD marker as well
C25_Witness ==
    /\ pc = "tui"
    /\ loc.presses >= 2
    /\ Len(loc.shown) >= 2
    /\ Len(data) > Len(loc.stats)
    /\ disk.text = DumpAll(data)

WellFormed(line) == Len(line) = 3 /\ line[1] = LB /\ line[3] = RB

\* the last well-formed record of path p among the lines, None if there is none
RECURSIVE LastRecord(_, _)
LastRecord(lines, p) ==
    IF lines = <<>> THEN None
    ELSE LET line == lines[Len(lines)]
         IN IF WellFormed(line) /\ line[2].path = p THEN line[2]
            ELSE LastRecord(SubSeq(lines, 1, Len(lines) - 1), p)

MalformedLines(lines) ==
    SelectSeq([i \in 1..Len(lines) |-> i],
              LAMBDA i : lines[i] # <<>> /\ ~ WellFormed(lines[i]))

\* C22: after loading any file the map holds, for each path, the last
\* well-formed record of that path in the file, and nothing else; every
\* malformed line (cut short, or valid JSON that is no object) is reported by
\* a warning naming it, and the load does not stop at it
C22_LoadSkipsMalformed ==
    last.kind = "load" =>
        LET lines == SplitLines(disk.text, <<>>)
        IN /\ \A p \in {<<"a", "x">>, <<"z">>} : get(data, p) = LastRecord(lines, p)
           /\ last.warnings = MalformedLines(lines)
           /\ ~ last.failed

Count(s, Test(_)) == Len(SelectSeq(s, Test))

CallMade(op, path) == \E i \in 1..Len(last.calls) : last.calls[i].op = op /\ last.calls[i].path = path

ErrorNodesUnder(dir) == Count(last.nodes, LAMBDA n : n.label = "error" /\ n.parent = dir)

\* C23: whatever cache call fails while the lazy tree is built, construction
\* is not aborted; a failed listing of a directory (the root included) and a
\* failed classification of one of its children leave one placeholder node
\* under that directory, and a file whose statistics cannot be fetched is
\* shown by its bare name
C23_LazyDegrades ==
    last.kind = "lazy" =>
        /\ ~ last.raised
        /\ \A c \in loc.faults :
              CallMade(c[1], c[2]) =>
                 CASE c[1] = "get_directory_files" -> ErrorNodesUnder(c[2]) = 1
                   [] c[1] = "is_directory" ->
                        ErrorNodesUnder(SubSeq(c[2], 1, Len(c[2]) - 1)) = 1
                   [] OTHER ->
                        \E i \in 1..Len(last.nodes) :
                           last.nodes[i] = Node("bare", c[2])

\* C24: building the lazy tree asks for at most max_display_items children of
\* the root and at most 20 of any other directory, and lists no directory
\* below depth 2 (so none at depth 3); every node is created at a depth from 1
\* to 3; no more children of a directory are classified than were asked for,
\* and no cache call is made twice, so the calls are bounded
C24_LazyBudget ==
    last.kind = "lazy" =>
        /\ \A i \in 1..Len(last.calls) :
              LET c == last.calls[i]
              IN /\ c.op = "get_directory_files" =>
                       \/ c.path = <<>> /\ c.limit = max_display_items
                       \/ c.path # <<>> /\ c.limit = 20 /\ Len(c.path) \in 1..2
                 /\ c.op = "get_directory_files" =>
                       Count(last.calls, LAMBDA x : /\ x.op = "is_directory"
                                                    /\ SubSeq(x.path, 1, Len(x.path) - 1) = c.path)
                          <= c.limit
                 /\ c.op # "get_directory_files" => Len(c.path) \in 1..3
                 /\ \A j \in 1..Len(last.calls) : i # j => last.calls[j] # c
        /\ \A i \in 1..Len(last.nodes) : Len(last.nodes[i].parent) + 1 \in 1..3

\* a repository four levels deep, built without a failure: the directory at
\* depth 3 is shown and its children are not asked for
C24_Witness ==
    /\ last.kind = "lazy"
    /\ <<"d", "d", "d", "d">> \in loc.shape
    /\ <<"d", "d", "d", "f">> \in loc.shape
    /\ loc.faults = {}
    /\ \E i \in 1..Len(last.nodes) : last.nodes[i] = Node("dir", <<"d", "d", "d">>)
    /\ ~ CallMade("get_directory_files", <<"d", "d", "d">>)
    /\ CallMade("get_directory_files", <<"d", "d">>)

\* C26: a run over a cache with entries whose incremental check found no
\* cached HEAD, or could not take the diff, launches the UI only after a full
\* refresh: when the UI is launched the cached HEAD marker is the
\* repository's current HEAD
C26_FallbackIsFullRefresh ==
    (ui /\ last.kind = "returned" /\ last.op = "check" /\ last.result = "need_full"
        /\ last.d0 # <<>> /\ last.n = Len(commits))
    => cached_hash(last.mem, REPO_HEAD_MARKER) = get_current_head(commits)

\* a full refresh stands between two consecutive file records, or between two
\* consecutive directory records: one is written and the next is still to do
BetweenFileRecords ==
    loc.op = "refresh" /\ pc = "files_write"
    /\ loc.todo # <<>> /\ Len(loc.todo) < Len(loc.sched)

BetweenDirRecords ==
    loc.op = "refresh" /\ pc = "dirs_write"
    /\ loc.todo # <<>> /\ Len(loc.todo) < Len(DirsToUpdate)

\* C27: during a full refresh the critical-section flag is clear between any
\* two consecutive file records and between any two consecutive directory
\* records, so an interrupt arriving there takes effect
C27_FlagBracketsEachUnit ==
    BetweenFileRecords \/ BetweenDirRecords => ~ crit /\ ENABLED HandlerExits

\* the directories one refresh schedules
ScheduledDirs == IF loc.op = "refresh" THEN DirsToUpdate ELSE AffectedDirs

ProperAncestor(d, e) == Len(d) < Len(e) /\ SubSeq(e, 1, Len(d)) = d

\* the file phase of this refresh wrote the record it computed for f
FileUpserted(f) == f \in DOMAIN loc.all_stats /\ get(data, f) = loc.all_stats[f]

\* C28: when a directory aggregate is about to be computed, in a full or an
\* incremental refresh, every scheduled file's record has been upserted, and
\* every scheduled directory below the directory has been processed: its
\* aggregate is in the cache and it is no longer in the list to do
C28_FilesThenDeepestFirst ==
    pc = "dirs_write" =>
        /\ \A f \in Range(loc.sched) : FileUpserted(f)
        /\ \A e \in Range(ScheduledDirs) :
              ProperAncestor(Head(loc.todo), e) =>
                  /\ e \notin Range(loc.todo)
                  /\ get(data, e) # None /\ get(data, e).is_dir

\* a full refresh about to compute the aggregate of a, after both files and
\* a/b; and the same in an incremental refresh
C28_Witness ==
    /\ pc = "dirs_write" /\ loc.op = "refresh"
    /\ Len(loc.sched) = 2
    /\ loc.todo = << <<"a">> >>
    /\ ScheduledDirs = << <<"a", "b">>, <<"a">> >>

C28_WitnessIncremental ==
    /\ pc = "dirs_write" /\ loc.op = "check"
    /\ loc.sched # <<>>
    /\ loc.todo = << <<"a">> >>
    /\ ScheduledDirs = << <<"a", "b">>, <<"a">> >>

\* of an incremental check with locals l: the files of the commits after the
\* cached HEAD, up to the HEAD seen when it started, that are tracked and
\* match its pattern; and the paths it may write
CheckChangedFiles(l) ==
    { f \in { commits[i].file :
                i \in { j \in 1..l.n0 : j > cached_hash(l.d0, REPO_HEAD_MARKER).id } } :
        matches_glob_pattern(Str(f), l.glob) = "True" }

CheckMayWrite(l) ==
    CheckChangedFiles(l)
    \cup UNION { { SubSeq(f, 1, k) : k \in 1..(Len(f) - 1) } : f \in CheckChangedFiles(l) }
    \cup {REPO_HEAD_MARKER}

ChangedPaths == { p \in Paths(data) \cup Paths(data') : get(data', p) # get(data, p) }

\* the file is left alone, or one record of path p is appended to it
AppendsRecordOf(P) ==
    \/ disk' = disk
    \/ /\ Len(disk'.text) = Len(disk.text) + 4
       /\ IsPrefix(disk.text, disk'.text)
       /\ disk'.text[Len(disk.text) + 2].path \in P

\* C29: check_and_refresh_stale writes nothing when the cached HEAD is the
\* current one, when no HEAD is cached and when the diff fails; otherwise it
\* changes and appends only records of the changed files that are tracked and
\* match the pattern, of their proper ancestor directories and of the HEAD
\* marker (the marker alone when no changed file is left), and when it
\* completes the marker holds the HEAD it started with
C29_IncrementalFrame ==
    [][/\ (loc.op # "check" /\ loc'.op = "check") =>
             /\ data' = data /\ disk' = disk
             /\ (\/ cached_hash(data, REPO_HEAD_MARKER) = get_current_head(commits)
                 \/ cached_hash(data, REPO_HEAD_MARKER) = NoHash
                 \/ loc'.at = "diff")
                => pc' = "returned" /\ loc'.result \in {"unchanged", "need_full"}
       /\ (loc.op = "check" /\ pc = "returned") => disk' = disk
       /\ (loc.op = "check" /\ loc'.op = "check") =>
             /\ ChangedPaths \subseteq CheckMayWrite(loc)
             /\ AppendsRecordOf(CheckMayWrite(loc))
             /\ (pc' = "returned" /\ loc'.result = "completed") =>
                    cached_hash(data', REPO_HEAD_MARKER) = loc.current_head]_vars

\* an incremental refresh completed under the pattern a/*: the records of
\* a/x and of a were rewritten
C29_Witness ==
    /\ pc = "returned" /\ loc.op = "check" /\ loc.result = "completed"
    /\ loc.glob # DEFAULT_GLOB_PATTERN
    /\ CheckChangedFiles(loc) = { <<"a", "x">> }
    /\ get(data, <<"a">>) # get(loc.d0, <<"a">>)
    /\ get(data, <<"a", "x">>) # get(loc.d0, <<"a", "x">>)

\* only the marker written: the one new commit touches a file the pattern
\* leaves out
C29_WitnessHeadOnly ==
    /\ pc = "returned" /\ loc.op = "check" /\ loc.result = "completed"
    /\ CheckChangedFiles(loc) = {}
    /\ Paths(loc.d0) = Paths(data)
    /\ \A p \in Paths(data) \ {REPO_HEAD_MARKER} : get(data, p) = get(loc.d0, p)
    /\ get(data, REPO_HEAD_MARKER) # get(loc.d0, REPO_HEAD_MARKER)

\* nothing written: the diff could not be taken
C29_WitnessDiffError ==
    /\ pc = "returned" /\ loc.op = "check" /\ loc.at = "diff"
    /\ data = loc.d0 /\ Len(data) > 1

\* C30: when the bulk query fails, or a line of its output has fields that
\* cannot be parsed as numbers, the fast strategy returns exactly the records
\* the standard strategy returns for the same files and pattern
C30_FallbackIsStandard ==
    (pc = "returned" /\ last.kind = "fallback"
        /\ (last.outcome = "CalledProcessError" \/ last.unparseable))
    => data = last.standard

\* ------------------------------------------------------------------ C31
\* the commits of the history that touch a path
Touching(path) == { i \in 1..Len(commits) : commits[i].file = path }

\* C31: the fast strategy takes every header line for a header, whatever the
\* first character of the hash, so each numeric-stat line counts for the
\* commit that emitted it: a file's record counts the commits touching it,
\* holds their authors and the least and greatest of their dates, and its
\* latest hash is the hash of one of them
C31_EveryHeaderRecognised ==
    StrategiesRan =>
        \A i \in 1..Len(data) :
            LET T == Touching(data[i].path)
            IN /\ data[i].commits = Cardinality(T)
               /\ data[i].authors = { commits[k].email : k \in T }
               /\ T # {} =>
                    /\ data[i].first_commit = MinDate({ commits[k].date : k \in T })
                    /\ data[i].last_commit = MaxOfDates({ commits[k].date : k \in T })
                    /\ data[i].last_commit_hash \in { commits[k].hash : k \in T }

\* ------------------------------------------------------------------ C32
\* the records whose path is dir_path, the separator, and more: the segments
\* of dir_path are the first segments of the path
LiteralBelow(d, dir_path) ==
    { k \in 1..Len(d) : /\ Len(d[k].path) > Len(dir_path)
                        /\ SubSeq(d[k].path, 1, Len(dir_path)) = dir_path }

RECURSIVE SumField(_, _, _)
SumField(d, K, field) ==
    IF K = {} THEN 0
    ELSE LET k == CHOOSE x \in K : TRUE
         IN d[k][field] + SumField(d, K \ {k}, field)

\* C32: the aggregate of a directory is the sum over exactly the records
\* whose path starts with the directory's name and the separator, taken
\* literally; the directory's own record, records of other paths that
\* resemble the name, and the marker records add nothing
C32_LiteralPrefixScope ==
    (pc = "returned" /\ last.kind = "agg") =>
        LET K == LiteralBelow(data, last.dir_path)
        IN /\ last.agg.commits = SumField(data, K, "commits")
           /\ last.agg.insertions = SumField(data, K, "insertions")
           /\ last.agg.authors = UNION { data[k].authors : k \in K }
\* the non-empty prefixes of a path: the node itself and its ancestors below
\* the root
Prefixes(p) == { SubSeq(p, 1, k) : k \in 1..Len(p) }

RecordPaths == { data[i].path : i \in 1..Len(data) }

\* C33: in the composed UI the tree built from the loaded records has a node
\* for every record that is not a reserved marker and for each of its
\* ancestors, the root included, and no other node; every node below the root
\* is exactly once in the children list of its immediate parent and in no
\* other list; no marker is a node; and a node is treated as a directory (its
\* children are shown) according to its record's is_dir when it has a record,
\* and otherwise exactly when it has children
C33_PathTree ==
    pc = "tui" =>
        LET tree == build_tree(loc.stats)
            markers == {REPO_HEAD_MARKER, REFRESH_PROGRESS_MARKER}
            nodes == UNION { Prefixes(p) : p \in RecordPaths \ markers }
        IN /\ DOMAIN tree \ {<<>>} = nodes
           /\ nodes # {} => <<>> \in DOMAIN tree
           /\ \A n \in nodes : \A q \in DOMAIN tree :
                 Count(tree[q], LAMBDA c : c = n) = IF q = Parent(n) THEN 1 ELSE 0
           /\ \A q \in DOMAIN tree : <<>> \notin Range(tree[q])
           /\ markers \cap DOMAIN tree = {}
           /\ Range(loc.shown) \subseteq nodes
           /\ \A n \in Range(loc.shown) :
                 LET stat == get(loc.stats, n)
                     is_dir == IF stat = None THEN tree[n] # <<>> ELSE stat.is_dir
                 IN (\E c \in Range(loc.shown) : Parent(c) = n) <=> (is_dir /\ tree[n] # <<>>)

\* a file with the HEAD marker and records of a/x and a/z only: the node a has
\* no record, is inferred to be a directory and shows both children
C33_Witness ==
    /\ pc = "tui"
    /\ REPO_HEAD_MARKER \in RecordPaths
    /\ RecordPaths \ {REPO_HEAD_MARKER} = { <<"a", "x">>, <<"a", "z">> }
    /\ Range(loc.shown) = { <<"a">>, <<"a", "x">>, <<"a", "z">> }

\* a record of a that is not a directory next to a record of a/x: the node a
\* has a child in the tree, which is not shown
C33_WitnessFileRecord ==
    /\ pc = "tui"
    /\ RecordPaths = { <<"a">>, <<"a", "x">> }
    /\ ~ get(loc.stats, <<"a">>).is_dir
    /\ build_tree(loc.stats)[<<"a">>] = << <<"a", "x">> >>
    /\ loc.shown = << <<"a">> >>
\* the lines the monitor prints for a sequence of records
Formatted(entries) == [i \in 1..Len(entries) |-> monitor_format(dump(entries[i]))]

\* C34: with a writer that upserts and compacts, the monitor eventually has
\* printed exactly one formatted line for every record written after it
\* seeked to the end of the file, in the order of the writes, the records
\* upserted after a compaction included
C34_MonitorPrintsEveryAppend ==
    <>[](last.open => last.printed = Formatted(last.appended))

\* C38: when the process ended at a step of _compact_cache, the JsonlCache
\* constructed next loads the map that was in memory when the compaction began
C38_CompactionCrashSafe ==
    pc = "idle" /\ last.stopped => AsMap(data) = AsMap(last.map)
\* C35: analyze_cache reports as its file count and directory count the
\* numbers of distinct file paths and directory paths of the map JsonlCache
\* loads from the same file, the two marker records counted in neither, and
\* reaches its report whatever malformed lines the file holds
C35_AnalyzeCountsLoadedMap ==
    pc = "analyzed" /\ ~ last.failed =>
        LET markers == {REPO_HEAD_MARKER, REFRESH_PROGRESS_MARKER}
            paths == Paths(data) \ markers
        IN /\ ~ last.report.raised
           /\ last.report.files = Cardinality({ p \in paths : ~ get(data, p).is_dir })
           /\ last.report.dirs = Cardinality({ p \in paths : get(data, p).is_dir })
\* control is past _process_files_with_progress or
\* _process_directories_with_progress: they returned, or an exception left them
LeftProcessing == pc \in {"dirs_begin", "head", "cleanup", "returned", "raised"}

\* C36: whenever control has left _process_files_with_progress or
\* _process_directories_with_progress, by a return, a KeyboardInterrupt or
\* any other exception, the critical-section flag is clear, so that the
\* handler does not return on an interrupt that arrives afterwards
C36_FlagClearOnEveryExit ==
    LeftProcessing => ~ crit
\* the records of files (neither markers nor directory roll-ups) in a map
FileRecordPaths(d) ==
    { p \in Paths(d) \ {REPO_HEAD_MARKER, REFRESH_PROGRESS_MARKER} : ~ get(d, p).is_dir }

\* C37: when a full refresh has completed, every file record of the cache, in
\* memory and in the compacted file, is of a path that is tracked and matches
\* the pattern of the refresh
C37_OnlyTrackedMatching ==
    pc = "returned" /\ loc.op = "refresh" /\ loc.result = "completed" =>
        LET tracked == Range(get_tracked_files(commits, loc.glob))
        IN /\ FileRecordPaths(data) \subseteq tracked
           /\ FileRecordPaths(load_cache(disk).data) \subseteq tracked
\* the files a refresh of the map d schedules when called with resume
Scheduled(d, glob_pattern, resume) ==
    check_files_need_processing(ResumeData(d, commits, resume), commits,
                                get_tracked_files(commits, glob_pattern))

\* the tracked files without a record or with a cached hash that is not the
\* latest one
NeedProcessing(d, glob_pattern) ==
    SelectSeq(get_tracked_files(commits, glob_pattern), LAMBDA f :
        get(d, f) = None \/ cached_hash(d, f) # get_latest_commit_hash(commits, f))

\* C39: on every cache a process has loaded, with any marker in it, and for
\* either pattern, refresh(resume=True) and refresh(resume=False) schedule the
\* same files, those without a record or with another cached hash than the
\* latest, update the same directories and leave the same cache; and a
\* refresh that ran to its end with no commit in between, called either way,
\* scheduled those files and left that cache
C39_MarkerDecidesNothing ==
    /\ pc = "idle" =>
          \A g \in Globs :
              /\ Scheduled(data, g, TRUE) = Scheduled(data, g, FALSE)
              /\ Scheduled(data, g, TRUE) = NeedProcessing(data, g)
              /\ refresh(data, commits, g, TRUE, seed) = refresh(data, commits, g, FALSE, seed)
    /\ pc = "returned" /\ loc.op = "refresh" /\ loc.result = "completed"
          /\ loc.n0 = Len(commits) =>
          /\ loc.sched = NeedProcessing(loc.d0, loc.glob)
          /\ data = refresh(loc.d0, commits, loc.glob, TRUE, seed)
          /\ data = refresh(loc.d0, commits, loc.glob, FALSE, seed)
          /\ load_cache(disk).data = data

\* a cache with a marker that resume=True accepts (no HEAD record: the first
\* refresh was interrupted), with a file still to process
C39_Witness ==
    /\ pc = "idle"
    /\ ResumeState(data, commits, TRUE) # None
    /\ \E g \in Globs : Scheduled(data, g, TRUE) # <<>>

\* a cache with a marker that resume=True drops because HEAD moved since the
\* HEAD record was written, with one file up to date and one to process
C39_WitnessInvalidated ==
    /\ pc = "idle"
    /\ get(data, REFRESH_PROGRESS_MARKER) # None
    /\ ResumeData(data, commits, TRUE) # data
    /\ Len(Scheduled(data, DEFAULT_GLOB_PATTERN, TRUE)) = 1
    /\ Len(get_tracked_files(commits, DEFAULT_GLOB_PATTERN)) = 2

\* a completed refresh that began on a cache with a marker of the other
\* pattern and in the directories phase
C39_WitnessCompleted ==
    /\ pc = "returned" /\ loc.op = "refresh" /\ loc.result = "completed"
    /\ loc.n0 = Len(commits)
    /\ get(loc.d0, REFRESH_PROGRESS_MARKER) # None
    /\ get(loc.d0, REFRESH_PROGRESS_MARKER).phase = "directories"
    /\ get(loc.d0, REFRESH_PROGRESS_MARKER).glob_pattern # loc.glob
    /\ loc.sched # <<>>

====
